---- MODULE Spec2Model ----
(***************************************************************************)
(* Model of ondrovic/common.  Package results: the reflection-driven       *)
(* sorter (GenericSortInterface), the field introspector                   *)
(* (getHeadersAndFields), the row materializers (createHeaderRow,          *)
(* createDataRow, createFooterRow) and the renderer                        *)
(* (GenericRenderResultsTableInterface).  Package formatters: FormatSize.  *)
(* Package utils: CalculateTolerances, GetOperatorSizeMatches and          *)
(* ConvertStringSizeToBytes.                                               *)
(*                                                                         *)
(* Go values are records tagged with their reflect.Kind.  Go strings are   *)
(* sequences of byte codes, so that strings.EqualFold and the byte-wise    *)
(* string order of Go are computed, not assumed.  int64 and float64 are    *)
(* computed digit by digit, with their overflow and their rounding.        *)
(***************************************************************************)
EXTENDS Integers, Sequences, FiniteSets, TLC

VARIABLES slice, fn, args, ret, panicked, pc, calls

vars == <<slice, fn, args, ret, panicked, pc, calls>>

(***************************************************************************)
(* Bounds of the model.                                                    *)
(***************************************************************************)
\* Longest slice handed to the library.  sort.Slice sorts a slice of at most
\* 12 elements by insertion sort alone; MaxLen stays below that.
MaxLen == 3

(***************************************************************************)
(* Go strings as byte sequences.                                           *)
(***************************************************************************)
sName == <<78, 97, 109, 101>>                       \* "Name"
sname == <<110, 97, 109, 101>>                      \* "name"
sAge == <<65, 103, 101>>                            \* "Age"
sage == <<97, 103, 101>>                            \* "age"
saGe == <<97, 71, 101>>                             \* "aGe"
sIncome == <<73, 110, 99, 111, 109, 101>>           \* "Income"
sHeight == <<72, 101, 105, 103, 104, 116>>          \* "Height"
sSize == <<83, 105, 122, 101>>                      \* "Size"
ssize == <<115, 105, 122, 101>>                     \* "size"
sSIZE == <<83, 73, 90, 69>>                         \* "SIZE"
sExtra == <<69, 120, 116, 114, 97>>                 \* "Extra"
sTimestamp == <<84, 105, 109, 101, 115, 116, 97, 109, 112>>  \* "Timestamp"
sDone == <<68, 111, 110, 101>>                      \* "Done"
sOwner == <<79, 119, 110, 101, 114>>                \* "Owner"
sEmbeddedStruct == <<69, 109, 98, 101, 100, 100, 101, 100, 83, 116, 114, 117, 99, 116>>  \* "EmbeddedStruct"
sMockFileInfo == <<77, 111, 99, 107, 70, 105, 108, 101, 73, 110, 102, 111>>  \* "MockFileInfo"
sNonExistent == <<78, 111, 110, 69, 120, 105, 115, 116, 101, 110, 116>>  \* "NonExistent"
swall == <<119, 97, 108, 108>>                      \* "wall"
sext == <<101, 120, 116>>                           \* "ext"
sA == <<65>>                                        \* "A"
sB == <<66>>                                        \* "B"
sC == <<67>>                                        \* "C"
sJohn == <<74, 111, 104, 110>>                      \* "John"
sAlice == <<65, 108, 105, 99, 101>>                 \* "Alice"
salice == <<97, 108, 105, 99, 101>>                 \* "alice"
sAl == <<65, 108>>                                  \* "Al"
sBob == <<66, 111, 98>>                             \* "Bob"
sTestTxt == <<116, 101, 115, 116, 46, 116, 120, 116>>  \* "test.txt"
sOuter == <<79, 117, 116, 101, 114>>                \* "Outer"
sInner == <<73, 110, 110, 101, 114>>                \* "Inner"
sCount == <<67, 111, 117, 110, 116>>                \* "Count"
sNonExistentField == <<78, 111, 110, 69, 120, 105, 115, 116, 101, 110, 116, 70, 105, 101, 108, 100>>  \* "NonExistentField"
sPB == <<80, 66>>                                   \* "PB"
sTB == <<84, 66>>                                   \* "TB"
sGB == <<71, 66>>                                   \* "GB"
sMB == <<77, 66>>                                   \* "MB"
sKB == <<75, 66>>                                   \* "KB"
sZeroB == <<48, 32, 66>>                            \* "0 B"
sOneKB == <<49, 46, 48, 48, 32, 75, 66>>            \* "1.00 KB"
sEmpty == <<>>                                      \* ""

\* unicode.SimpleFold restricted to ASCII: an upper-case letter folds to its
\* lower-case form, every other byte to itself.
FoldByte(c) == IF c >= 65 /\ c <= 90 THEN c + 32 ELSE c

\* A comparison of names that minds the case.
EqualFold_CaseSensitive(s, t) == s = t

\* strings.EqualFold(s, t)
EqualFold(s, t) ==
    /\ Len(s) = Len(t)
    /\ \A k \in 1..Len(s) : FoldByte(s[k]) = FoldByte(t[k])

\* s with every byte folded.
FoldSeq(s) == [k \in 1..Len(s) |-> FoldByte(s[k])]

\* Go's s < t on strings: byte-wise lexicographic order.
RECURSIVE StringLess(_, _)
StringLess(s, t) ==
    IF t = <<>> THEN FALSE
    ELSE IF s = <<>> THEN TRUE
    ELSE IF s[1] # t[1] THEN s[1] < t[1]
    ELSE StringLess(Tail(s), Tail(t))

(***************************************************************************)
(* Go values, tagged by reflect.Kind.                                      *)
(***************************************************************************)
Str(b) == [kind |-> "string", v |-> b]
IntV(n) == [kind |-> "int", v |-> n]
UintV(n) == [kind |-> "uint", v |-> n]
FloatV(n) == [kind |-> "float", nan |-> FALSE, v |-> n]
NaN == [kind |-> "float", nan |-> TRUE, v |-> 0]
BoolV(b) == [kind |-> "bool", v |-> b]
Fld(name, val) == [name |-> name, anon |-> FALSE, val |-> val]
Embed(name, val) == [name |-> name, anon |-> TRUE, val |-> val]
Struct(fs) == [kind |-> "struct", fields |-> fs]
Ptr(v) == [kind |-> "ptr", nil |-> FALSE, elem |-> v]
NilPtr(zero) == [kind |-> "ptr", nil |-> TRUE, elem |-> zero]
Iface(v) == [kind |-> "interface", elem |-> v]
SliceV(es) == [kind |-> "slice", elems |-> es]
ArrayV(es) == [kind |-> "array", elems |-> es]
Nil == [kind |-> "invalid"]

\* The zero reflect.Value: what FieldByNameFunc returns when nothing matches.
NoField == [valid |-> FALSE, val |-> Nil, name |-> <<>>]

\* reflect.Indirect(v): the pointee of a pointer (the zero Value for a nil
\* pointer), v itself for every other kind.
Indirect(v) ==
    IF v.kind = "ptr" THEN (IF v.nil THEN Nil ELSE v.elem) ELSE v

RECURSIVE Flat(_)
\* Concatenation of a sequence of sequences.
Flat(ss) == IF ss = <<>> THEN <<>> ELSE Head(ss) \o Flat(Tail(ss))

\* The fields of the structs of one embedding depth whose name satisfies match.
MatchesAt(level, column) ==
    Flat([k \in 1..Len(level) |->
            SelectSeq(level[k].fields, LAMBDA f : EqualFold(f.name, column))])

\* The embedded structs one level deeper.  (No input embeds a pointer to a
\* struct, which reflect would follow as well.)
NextLevel(level) ==
    Flat([k \in 1..Len(level) |->
            LET emb == SelectSeq(level[k].fields,
                                 LAMBDA f : f.anon /\ f.val.kind = "struct")
            IN  [m \in 1..Len(emb) |-> emb[m].val]])

RECURSIVE FieldAtDepth(_, _)
\* reflect's breadth-first search: the shallowest depth with a match decides;
\* two or more matches at that depth cancel each other.
FieldAtDepth(level, column) ==
    IF level = <<>> THEN NoField
    ELSE LET hits == MatchesAt(level, column)
         IN  IF Len(hits) = 1
             THEN [valid |-> TRUE, val |-> hits[1].val, name |-> hits[1].name]
             ELSE IF Len(hits) > 1 THEN NoField
             ELSE FieldAtDepth(NextLevel(level), column)

\* v.FieldByNameFunc(func(name) bool { return strings.EqualFold(name, column) })
\* on a struct Value v.
FieldByNameFunc(v, column) == FieldAtDepth(<<v>>, column)

(***************************************************************************)
(* GenericSortInterface                                                    *)
(***************************************************************************)
\* The comparison of two field Values of the same kind, before the direction
\* is applied: the switch on fi.Kind().  supported is FALSE in the default
\* branch.
KindLess(fi, fj) ==
    CASE fi.kind = "string" -> [supported |-> TRUE, less |-> StringLess(fi.v, fj.v)]
      [] fi.kind = "int"    -> [supported |-> TRUE, less |-> fi.v < fj.v]
      [] fi.kind = "uint"   -> [supported |-> TRUE, less |-> fi.v < fj.v]
      [] fi.kind = "float"  -> [supported |-> TRUE,
                                less |-> ~fi.nan /\ ~fj.nan /\ fi.v < fj.v]
      [] OTHER              -> [supported |-> FALSE, less |-> FALSE]

\* sortLess with the direction forgotten: the comparison is never inverted.
sortLess_DirectionIgnored(elems, i, j, sortColumn, sortDescending) ==
    LET vi == Indirect(elems[i])
        vj == Indirect(elems[j])
    IN  IF vi.kind # "struct" \/ vj.kind # "struct"
        THEN [panic |-> TRUE, less |-> FALSE]
        ELSE LET fi == FieldByNameFunc(vi, sortColumn)
                 fj == FieldByNameFunc(vj, sortColumn)
             IN  IF ~fi.valid \/ ~fj.valid
                 THEN [panic |-> FALSE, less |-> FALSE]
                 ELSE [panic |-> FALSE, less |-> KindLess(fi.val, fj.val).less]

\* sortLess answering a missing field in the direction's terms: "return
\* sortDescending" where the code has "return false".
sortLess_MissingFieldInverted(elems, i, j, sortColumn, sortDescending) ==
    LET vi == Indirect(elems[i])
        vj == Indirect(elems[j])
    IN  IF vi.kind # "struct" \/ vj.kind # "struct"
        THEN [panic |-> TRUE, less |-> FALSE]
        ELSE LET fi == FieldByNameFunc(vi, sortColumn)
                 fj == FieldByNameFunc(vj, sortColumn)
             IN  IF ~fi.valid \/ ~fj.valid
                 THEN [panic |-> FALSE, less |-> sortDescending]
                 ELSE LET c == KindLess(fi.val, fj.val)
                      IN  IF ~c.supported
                          THEN [panic |-> FALSE, less |-> FALSE]
                          ELSE [panic |-> FALSE,
                                less |-> IF sortDescending THEN ~c.less ELSE c.less]

\* sortLess whose default branch leaves less false and falls through to the
\* inversion instead of returning.
sortLess_DefaultFallsThrough(elems, i, j, sortColumn, sortDescending) ==
    LET vi == Indirect(elems[i])
        vj == Indirect(elems[j])
    IN  IF vi.kind # "struct" \/ vj.kind # "struct"
        THEN [panic |-> TRUE, less |-> FALSE]
        ELSE LET fi == FieldByNameFunc(vi, sortColumn)
                 fj == FieldByNameFunc(vj, sortColumn)
             IN  IF ~fi.valid \/ ~fj.valid
                 THEN [panic |-> FALSE, less |-> FALSE]
                 ELSE LET c == KindLess(fi.val, fj.val)
                      IN  [panic |-> FALSE,
                           less |-> IF sortDescending THEN ~c.less ELSE c.less]

\* The less function handed to sort.Slice, on the current contents of the
\* slice.  FieldByNameFunc panics on a Value that is not a struct.
sortLess(elems, i, j, sortColumn, sortDescending) ==
    LET vi == Indirect(elems[i])
        vj == Indirect(elems[j])
    IN  IF vi.kind # "struct" \/ vj.kind # "struct"
        THEN [panic |-> TRUE, less |-> FALSE]
        ELSE LET fi == FieldByNameFunc(vi, sortColumn)
                 fj == FieldByNameFunc(vj, sortColumn)
             IN  IF ~fi.valid \/ ~fj.valid
                 THEN [panic |-> FALSE, less |-> FALSE]
                 ELSE LET c == KindLess(fi.val, fj.val)
                      IN  IF ~c.supported
                          THEN [panic |-> FALSE, less |-> FALSE]
                          ELSE [panic |-> FALSE,
                                less |-> IF sortDescending THEN ~c.less ELSE c.less]

\* Swap writing one of the two elements only.
Swap_OneWay(elems, i, j) ==
    [k \in 1..Len(elems) |-> IF k = i THEN elems[j] ELSE elems[k]]

\* reflect.Swapper: exchange elements i and j in place.
Swap(elems, i, j) ==
    [k \in 1..Len(elems) |->
        IF k = i THEN elems[j] ELSE IF k = j THEN elems[i] ELSE elems[k]]

RECURSIVE insertInner(_, _, _, _)
\* for j := i; j > a && less(j, j-1); j-- { swap(j, j-1) }
insertInner(elems, j, sortColumn, sortDescending) ==
    IF j <= 1 THEN [elems |-> elems, panicked |-> FALSE]
    ELSE LET c == sortLess(elems, j, j - 1, sortColumn, sortDescending)
         IN  IF c.panic THEN [elems |-> elems, panicked |-> TRUE]
             ELSE IF c.less
                  THEN insertInner(Swap(elems, j, j - 1), j - 1,
                                   sortColumn, sortDescending)
                  ELSE [elems |-> elems, panicked |-> FALSE]

RECURSIVE insertionSort(_, _, _, _)
\* for i := a + 1; i < b; i++ { ... }; a panic of less ends the sort where
\* it stands.
insertionSort(elems, i, sortColumn, sortDescending) ==
    IF i > Len(elems) THEN [elems |-> elems, panicked |-> FALSE]
    ELSE LET r == insertInner(elems, i, sortColumn, sortDescending)
         IN  IF r.panicked THEN r
             ELSE insertionSort(r.elems, i + 1, sortColumn, sortDescending)

\* sort.Slice(slice, less): pdqsort, which for a slice of at most 12 elements
\* is insertion sort.
sortSlice(elems, sortColumn, sortDescending) ==
    insertionSort(elems, 2, sortColumn, sortDescending)

\* sortInterface without the test of the argument's kind: sort.Slice panics
\* on a value that is not a slice.
sortInterface_NoKindTest(v, sortColumn, sortDescending) ==
    IF v.kind # "slice" THEN [slice |-> v, panicked |-> TRUE]
    ELSE LET r == sortSlice(v.elems, sortColumn, sortDescending)
         IN  [slice |-> SliceV(r.elems), panicked |-> r.panicked]

\* The whole of GenericSortInterface: the value the caller's variable holds
\* after the call, and whether the call panicked.
sortInterface(v, sortColumn, sortDescending) ==
    IF v.kind # "slice" THEN [slice |-> v, panicked |-> FALSE]
    ELSE LET r == sortSlice(v.elems, sortColumn, sortDescending)
         IN  [slice |-> SliceV(r.elems), panicked |-> r.panicked]

(***************************************************************************)
(* The inputs: the fixtures of the tests, and values that differ from them *)
(* in one respect each.                                                    *)
(***************************************************************************)
\* type Person struct { Name string; Age int; Income float64; Height uint64 }
Person(name, age, income, height) ==
    Struct(<<Fld(sName, Str(name)), Fld(sAge, IntV(age)),
             Fld(sIncome, income), Fld(sHeight, UintV(height))>>)

\* Ties in Age and in Height, and an Income that is not a number.
Persons ==
    { Person(sJohn, 30, FloatV(50), 180),
      Person(sAlice, 25, FloatV(45), 165),
      Person(sBob, 25, NaN, 180) }

\* Names that differ by a prefix and by letter case, a negative Age, ties in
\* Income.
Persons2 ==
    { Person(sAl, -3, FloatV(45), 0),
      Person(sAlice, 25, FloatV(45), 165),
      Person(salice, 30, FloatV(-1), 165) }

\* type EmbeddedStruct struct { Name string; Age int }
EmbeddedStruct(name, age) ==
    Struct(<<Fld(sName, Str(name)), Fld(sAge, IntV(age))>>)

\* type PersonWithEmbedded struct { EmbeddedStruct; Income float64 }
PersonWithEmbedded(name, age, income) ==
    Struct(<<Embed(sEmbeddedStruct, EmbeddedStruct(name, age)),
             Fld(sIncome, income)>>)

PersonsWithEmbedded ==
    { PersonWithEmbedded(sJohn, 30, FloatV(1)),
      PersonWithEmbedded(sAlice, 30, FloatV(2)) }

\* time.Time: a struct of unexported fields.
Time(t) == Struct(<<Fld(swall, UintV(0)), Fld(sext, IntV(t))>>)

\* type Event struct { Name string; Timestamp time.Time }, with a boolean and
\* a named struct field added.
Event(name, t, done) ==
    Struct(<<Fld(sName, Str(name)), Fld(sTimestamp, Time(t)),
             Fld(sDone, BoolV(done)), Fld(sOwner, EmbeddedStruct(name, t))>>)

Events == { Event(sB, 2, TRUE), Event(sA, 1, FALSE), Event(sC, 3, FALSE) }

\* A struct with two fields whose names differ by case only, and an embedded
\* struct whose Name is shadowed, ignoring case, by the direct field name.
Shadowed(age1, age2, name, inner) ==
    Struct(<<Fld(sAge, IntV(age1)), Fld(sage, IntV(age2)),
             Fld(sname, Str(name)),
             Embed(sEmbeddedStruct, EmbeddedStruct(inner, age1))>>)

Shadows ==
    { Shadowed(2, 1, sA, sB), Shadowed(1, 2, sB, sA) }

\* type MockFileInfo struct { Name string; Size int64 }
MockFileInfo(name, size) ==
    Struct(<<Fld(sName, Str(name)), Fld(sSize, IntV(size))>>)

MockFileInfos ==
    { MockFileInfo(sTestTxt, 1024), MockFileInfo(sA, 0),
      MockFileInfo(sA, 1536) }

\* struct { MockFileInfo; Extra string }
WithExtra(name, size, extra) ==
    Struct(<<Embed(sMockFileInfo, MockFileInfo(name, size)),
             Fld(sExtra, Str(extra))>>)

WithExtras == { WithExtra(sTestTxt, 1024, sA), WithExtra(sB, 1023, sB) }

\* struct { Outer; C int; Owner EmbeddedStruct; Count }, where
\* type Outer struct { A int; Inner }, type Inner struct { B int } and
\* type Count int: embedding two levels deep, a named struct field and an
\* embedded field that is no struct.
Nested(a, b, c) ==
    Struct(<<Embed(sOuter,
                   Struct(<<Fld(sA, IntV(a)),
                            Embed(sInner, Struct(<<Fld(sB, IntV(b))>>))>>)),
             Fld(sC, IntV(c)),
             Fld(sOwner, EmbeddedStruct(sAl, a)),
             Embed(sCount, IntV(c))>>)

Nesteds == { Nested(1, 2, 3), Nested(3, 2, 1) }

\* struct { Name string; Size T } for a type T other than a signed integer:
\* string, uint64, float64 and a struct.
Sized(name, size) ==
    Struct(<<Fld(sName, Str(name)), Fld(sSize, size)>>)

SizedByString == { Sized(sA, Str(sOneKB)) }

SizedByUint == { Sized(sA, UintV(1024)) }

SizedByFloat == { Sized(sA, FloatV(1024)) }

SizedByStruct == { Sized(sA, EmbeddedStruct(sAl, 1)) }

\* The element types of the slices, each with its elements.
ElementSets ==
    { Persons, Persons2, PersonsWithEmbedded, Events, Shadows, MockFileInfos,
      WithExtras, Nesteds,
      SizedByString, SizedByUint, SizedByFloat, SizedByStruct,
      {IntV(2), IntV(1)},
      {Ptr(Person(sJohn, 30, FloatV(50), 180)),
       Ptr(Person(sAlice, 25, FloatV(45), 165)),
       NilPtr(Person(sEmpty, 0, FloatV(0), 0))},
      {Iface(Person(sJohn, 30, FloatV(50), 180)),
       Iface(Person(sAlice, 25, FloatV(45), 165))} }

\* All sequences over S of length 0..n.
SeqsUpTo(S, n) == UNION { [1..k -> S] : k \in 0..n }

Slices == { SliceV(es) : es \in UNION { SeqsUpTo(E, MaxLen) : E \in ElementSets } }

\* Values that are not slices: nil, an integer, a string, a struct, an array
\* and a pointer to a slice.
NonSlices ==
    { Nil, IntV(123), Str(sJohn), Person(sJohn, 30, FloatV(50), 180),
      ArrayV(<<IntV(2), IntV(1)>>),
      Ptr(SliceV(<<Person(sJohn, 30, FloatV(50), 180),
                   Person(sAlice, 25, FloatV(45), 165)>>)) }

Inputs == Slices \cup NonSlices

SortColumns ==
    { sName, sAge, saGe, sIncome, sHeight, sTimestamp, sDone, sNonExistent }

(***************************************************************************)
(* The state machine: a caller holding one value and calling the library.  *)
(***************************************************************************)
Init ==
    /\ slice \in Inputs
    /\ fn = "none"
    /\ args = <<>>
    /\ ret = <<>>
    /\ panicked = FALSE
    /\ pc = "idle"
    /\ calls = <<>>

\* GenericSortInterface(slice, sortColumn, sortDescending)
GenericSortInterface(sortColumn, sortDescending) ==
    /\ ~panicked
    /\ LET r == sortInterface(slice, sortColumn, sortDescending)
       IN  /\ slice' = r.slice
           /\ panicked' = r.panicked
    /\ fn' = "GenericSortInterface"
    /\ args' = [slice |-> slice, sortColumn |-> sortColumn,
                sortDescending |-> sortDescending]
    /\ ret' = <<>>
    /\ UNCHANGED <<pc, calls>>

Next ==
    \/ \E c \in SortColumns, d \in BOOLEAN : GenericSortInterface(c, d)

Spec == Init /\ [][Next]_vars

(***************************************************************************)
(* Vocabulary of the properties of GenericSortInterface.                   *)
(***************************************************************************)
SortCalled == fn = "GenericSortInterface"

IsSlice(v) == v.kind = "slice"

\* A slice whose elements are struct values.
IsStructSlice(v) ==
    IsSlice(v) /\ \A k \in 1..Len(v.elems) : v.elems[k].kind = "struct"

SupportedKinds == {"string", "int", "uint", "float"}

\* The field of element e that column resolves to: the one field, at the
\* shallowest embedding depth with a match, whose name equals column
\* ignoring case.
Resolves(e, column) == FieldByNameFunc(e, column).valid

Key(e, column) == FieldByNameFunc(e, column).val

\* column resolves to a field on every element, of a kind in kinds.
ResolvesTo(v, column, kinds) ==
    \A k \in 1..Len(v.elems) :
        Resolves(v.elems[k], column) /\ Key(v.elems[k], column).kind \in kinds

IsNaN(x) == x.kind = "float" /\ x.nan

\* a < b for two field values of one supported kind; a NaN is neither less
\* nor greater than anything.
ValLess(a, b) ==
    CASE a.kind = "string" -> StringLess(a.v, b.v)
      [] a.kind = "float"  -> ~a.nan /\ ~b.nan /\ a.v < b.v
      [] OTHER             -> a.v < b.v

\* No element is followed, anywhere later, by one with a smaller field value.
NonDecreasing(elems, column) ==
    \A k \in 1..Len(elems), m \in 1..Len(elems) :
        k < m => ~ValLess(Key(elems[m], column), Key(elems[k], column))

\* No element is followed, anywhere later, by one with a greater field value.
NonIncreasing(elems, column) ==
    \A k \in 1..Len(elems), m \in 1..Len(elems) :
        k < m => ~ValLess(Key(elems[k], column), Key(elems[m], column))

InOrder(elems, column, descending) ==
    IF descending THEN NonIncreasing(elems, column)
    ELSE NonDecreasing(elems, column)

\* C1 as stated: for every non-empty slice of structs and every sortColumn
\* that names a field of kind string, signed integer, unsigned integer or
\* float, the call leaves the slice non-decreasing in that field when
\* sortDescending is false and non-increasing when it is true.
C1_AsStated ==
    (/\ SortCalled
     /\ IsStructSlice(args.slice)
     /\ Len(args.slice.elems) > 0
     /\ ResolvesTo(args.slice, args.sortColumn, SupportedKinds))
    => /\ ~panicked
       /\ InOrder(slice.elems, args.sortColumn, args.sortDescending)

\* [John, Alice] of the tests, John being greater in every field.
JohnAlice ==
    <<Person(sJohn, 30, FloatV(50), 180), Person(sAlice, 25, FloatV(45), 165)>>

\* C1 as amended: the same, for the slices in which no element holds a NaN
\* in the sort field.  [John, Alice] becomes [Alice, John] when sorted
\* ascending by Name, Age, Income or Height, and stays when sorted descending.
C1_SortedUnlessNaN ==
    (/\ SortCalled
     /\ IsStructSlice(args.slice)
     /\ Len(args.slice.elems) > 0
     /\ ResolvesTo(args.slice, args.sortColumn, SupportedKinds)
     /\ \A k \in 1..Len(args.slice.elems) :
            ~IsNaN(Key(args.slice.elems[k], args.sortColumn)))
    => /\ ~panicked
       /\ InOrder(slice.elems, args.sortColumn, args.sortDescending)
       /\ args.slice.elems = JohnAlice =>
              slice.elems = IF args.sortDescending THEN JohnAlice
                            ELSE <<JohnAlice[2], JohnAlice[1]>>

\* A descending sort by a float field holding no NaN that moved elements of
\* a three-element slice.
C1_Witness ==
    /\ SortCalled
    /\ IsStructSlice(args.slice)
    /\ Len(args.slice.elems) = 3
    /\ args.sortColumn = sIncome
    /\ args.sortDescending
    /\ \A k \in 1..3 : ~IsNaN(Key(args.slice.elems[k], sIncome))
    /\ slice # args.slice
    /\ NonIncreasing(slice.elems, sIncome)

\* Every field name of struct value e, at every embedding depth, the names
\* of the embedded structs included.
RECURSIVE AllNames(_)
AllNames(e) ==
    { e.fields[k].name : k \in 1..Len(e.fields) }
    \cup UNION { AllNames(e.fields[k].val) :
                   k \in { n \in 1..Len(e.fields) :
                             e.fields[n].anon /\ e.fields[n].val.kind = "struct" } }

\* column equals, ignoring case, no field name of element e.
MatchesNoField(e, column) ==
    \A n \in AllNames(e) : FoldSeq(n) # FoldSeq(column)

\* C2: when sortColumn matches no field of the element type, the call leaves
\* a slice of structs, of any length, in the order it had, whatever the
\* direction.
C2_NoFieldNoReorder ==
    (/\ SortCalled
     /\ IsStructSlice(args.slice)
     /\ \A k \in 1..Len(args.slice.elems) :
            MatchesNoField(args.slice.elems[k], args.sortColumn))
    => /\ ~panicked
       /\ slice = args.slice

\* A descending call on two or more structs none of which has the column.
C2_Witness ==
    /\ SortCalled
    /\ IsStructSlice(args.slice)
    /\ Len(args.slice.elems) >= 2
    /\ args.slice.elems[1] # args.slice.elems[2]
    /\ args.sortColumn = sNonExistent
    /\ args.sortDescending
    /\ MatchesNoField(args.slice.elems[1], sNonExistent)
    /\ slice = args.slice

\* C3: when sortColumn resolves to a field of a kind other than string,
\* signed integer, unsigned integer and float, the comparator answers "not
\* less" for every pair of elements, in either direction, and the slice
\* keeps its order.
C3_UnsupportedKindNoReorder ==
    (/\ SortCalled
     /\ IsStructSlice(args.slice)
     /\ \A k \in 1..Len(args.slice.elems) :
            /\ Resolves(args.slice.elems[k], args.sortColumn)
            /\ Key(args.slice.elems[k], args.sortColumn).kind \notin SupportedKinds)
    => /\ \A i \in 1..Len(args.slice.elems), j \in 1..Len(args.slice.elems),
             d \in BOOLEAN :
             sortLess(args.slice.elems, i, j, args.sortColumn, d)
                 = [panic |-> FALSE, less |-> FALSE]
       /\ ~panicked
       /\ slice = args.slice

\* A descending call by the time-valued field on three events that are not in
\* the order of their times, and one by the boolean field.
C3_Witness ==
    /\ SortCalled
    /\ IsStructSlice(args.slice)
    /\ Len(args.slice.elems) = 3
    /\ args.sortColumn \in {sTimestamp, sDone}
    /\ args.sortDescending
    /\ Resolves(args.slice.elems[1], args.sortColumn)
    /\ Key(args.slice.elems[1], args.sortColumn).kind \in {"struct", "bool"}
    /\ Key(args.slice.elems[1], args.sortColumn)
           # Key(args.slice.elems[2], args.sortColumn)
    /\ slice = args.slice

\* The elements of elems whose field value equals x, in their order.
WithKey(elems, column, x) ==
    SelectSeq(elems, LAMBDA e : Key(e, column) = x)

\* C4 as stated: elements whose values in the sort field are equal keep their
\* relative order, in both directions.
C4_Stable ==
    (/\ SortCalled
     /\ IsStructSlice(args.slice)
     /\ ResolvesTo(args.slice, args.sortColumn, SupportedKinds))
    => /\ ~panicked
       /\ \A k \in 1..Len(args.slice.elems) :
             LET x == Key(args.slice.elems[k], args.sortColumn)
             IN  ~IsNaN(x) =>
                     WithKey(slice.elems, args.sortColumn, x)
                         = WithKey(args.slice.elems, args.sortColumn, x)

\* All spellings of s that differ from it in letter case only.
RECURSIVE CaseVariants(_)
CaseVariants(s) ==
    IF s = <<>> THEN {<<>>}
    ELSE LET c == FoldByte(s[1])
             heads == IF c >= 97 /\ c <= 122 THEN {c, c - 32} ELSE {c}
         IN  { <<h>> \o r : h \in heads, r \in CaseVariants(Tail(s)) }

\* The spellings tried for a column: all of them for a short name, the
\* lower-case and the upper-case one for a long name.
Spellings(s) ==
    IF Len(s) <= 4 THEN CaseVariants(s)
    ELSE { FoldSeq(s), [k \in 1..Len(s) |->
                           IF FoldByte(s[k]) >= 97 /\ FoldByte(s[k]) <= 122
                           THEN FoldByte(s[k]) - 32 ELSE s[k]] }

\* C5: whatever the slice and the direction, a call with any spelling of the
\* column that differs in letter case only ends as the call made.
C5_CaseInsensitiveColumn ==
    SortCalled =>
        \A c \in Spellings(args.sortColumn) :
            sortInterface(args.slice, c, args.sortDescending)
                = [slice |-> slice, panicked |-> panicked]

\* A call with the column spelled "aGe" that sorted structs by their Age.
C5_Witness ==
    /\ SortCalled
    /\ IsStructSlice(args.slice)
    /\ args.sortColumn = saGe
    /\ sAge \in Spellings(args.sortColumn)
    /\ Len(args.slice.elems) >= 2
    /\ slice # args.slice
    /\ InOrder(slice.elems, sAge, args.sortDescending)

\* C6: a call with a value that is not a slice returns without failure and
\* leaves the value as it was.
C6_NonSliceUntouched ==
    (SortCalled /\ ~IsSlice(args.slice)) => (~panicked /\ slice = args.slice)

\* Calls made with nil and with an integer.
C6_Witness ==
    /\ SortCalled
    /\ args.slice \in {Nil, IntV(123)}
    /\ ~panicked
    /\ slice = args.slice

\* C7 as stated: the call returns normally for every slice, and a slice whose
\* elements are not structs keeps its order.
C7_NoFailureOnAnySlice ==
    (SortCalled /\ IsSlice(args.slice))
    => /\ ~panicked
       /\ (\A k \in 1..Len(args.slice.elems) :
               Indirect(args.slice.elems[k]).kind # "struct")
          => slice = args.slice

(***************************************************************************)
(* 64-bit arithmetic.  A natural number is the sequence of its digits in   *)
(* base 1024, least significant first and without a leading zero digit, so *)
(* that a number has one representation and 1 << (10 * k) is k digits up.  *)
(* An int64 is a sign and a magnitude.                                     *)
(***************************************************************************)
\* a without its leading zero digits.
RECURSIVE NatNorm(_)
NatNorm(a) ==
    IF a = <<>> THEN <<>>
    ELSE IF a[Len(a)] = 0 THEN NatNorm(SubSeq(a, 1, Len(a) - 1)) ELSE a

\* The natural number of a small integer n >= 0.
RECURSIVE NatOf(_)
NatOf(n) == IF n = 0 THEN <<>> ELSE <<n % 1024>> \o NatOf(n \div 1024)

\* The small integer of a natural number below 2^31.
RECURSIVE NatVal(_)
NatVal(a) == IF a = <<>> THEN 0 ELSE a[1] + 1024 * NatVal(Tail(a))

\* Digit k of a, zero beyond its length.
Digit(a, k) == IF k <= Len(a) THEN a[k] ELSE 0

\* a without its lowest digit.
Rest(a) == IF a = <<>> THEN <<>> ELSE Tail(a)

RECURSIVE NatAddC(_, _, _)
NatAddC(a, b, c) ==
    IF a = <<>> /\ b = <<>> THEN (IF c = 0 THEN <<>> ELSE <<c>>)
    ELSE LET s == Digit(a, 1) + Digit(b, 1) + c
         IN  <<s % 1024>> \o NatAddC(Rest(a), Rest(b), s \div 1024)

\* a + b
NatAdd(a, b) == NatAddC(a, b, 0)

RECURSIVE NatSubB(_, _, _)
NatSubB(a, b, c) ==
    IF a = <<>> THEN <<>>
    ELSE LET d == a[1] - Digit(b, 1) - c
         IN  <<d % 1024>> \o NatSubB(Tail(a), Rest(b), IF d < 0 THEN 1 ELSE 0)

\* a - b for a >= b
NatSub(a, b) == NatNorm(NatSubB(a, b, 0))

RECURSIVE NatLessDigits(_, _)
NatLessDigits(a, b) ==
    IF a = <<>> THEN FALSE
    ELSE IF a[Len(a)] # b[Len(b)] THEN a[Len(a)] < b[Len(b)]
    ELSE NatLessDigits(SubSeq(a, 1, Len(a) - 1), SubSeq(b, 1, Len(b) - 1))

\* a < b
NatLess(a, b) ==
    IF Len(a) # Len(b) THEN Len(a) < Len(b) ELSE NatLessDigits(a, b)

\* a <= b
NatLeq(a, b) == ~NatLess(b, a)

RECURSIVE NatMulC(_, _, _)
NatMulC(a, m, c) ==
    IF a = <<>> THEN NatOf(c)
    ELSE LET s == a[1] * m + c
         IN  <<s % 1024>> \o NatMulC(Tail(a), m, s \div 1024)

\* a * m for a small integer m (0 <= m < 2^20)
NatMul(a, m) == NatNorm(NatMulC(a, m, 0))

\* a * 1024^k for k >= 0, the integer part of a / 1024^(-k) for k < 0.
NatShift(a, k) ==
    IF a = <<>> THEN <<>>
    ELSE IF k >= 0 THEN [i \in 1..k |-> 0] \o a
    ELSE SubSeq(a, 1 - k, Len(a))

\* a mod 1024^k
NatLow(a, k) == NatNorm(SubSeq(a, 1, IF k < Len(a) THEN k ELSE Len(a)))

RECURSIVE NatDivR(_, _, _)
\* Long division of the digits of a, most significant first, with r carried.
NatDivR(a, m, r) ==
    IF a = <<>> THEN [q |-> <<>>, r |-> r]
    ELSE LET x == r * 1024 + a[Len(a)]
             lower == NatDivR(SubSeq(a, 1, Len(a) - 1), m, x % m)
         IN  [q |-> lower.q \o <<x \div m>>, r |-> lower.r]

\* The quotient and the remainder of a by a small integer m (0 < m < 2^20).
NatDiv(a, m) ==
    LET d == NatDivR(a, m, 0) IN [q |-> NatNorm(d.q), r |-> d.r]

RECURSIVE BitLen(_)
\* The number of bits of a small integer.
BitLen(n) == IF n = 0 THEN 0 ELSE 1 + BitLen(n \div 2)

\* The number of bits of a.
NatBits(a) == IF a = <<>> THEN 0 ELSE 10 * (Len(a) - 1) + BitLen(a[Len(a)])

\* 2^63 and 2^64
Two63 == <<0, 0, 0, 0, 0, 0, 8>>

Two64 == <<0, 0, 0, 0, 0, 0, 16>>

\* An integer: sign and magnitude, zero being positive.
Z(neg, mag) == [neg |-> neg /\ mag # <<>>, mag |-> mag]

\* The int64 of a small integer.
ToInt64(n) == IF n < 0 THEN Z(TRUE, NatOf(0 - n)) ELSE Z(FALSE, NatOf(n))

MinInt64 == Z(TRUE, Two63)

MaxInt64 == Z(FALSE, NatSub(Two63, <<1>>))

ZNeg(x) == Z(~x.neg, x.mag)

\* x + y, unbounded
ZAdd(x, y) ==
    IF x.neg = y.neg THEN Z(x.neg, NatAdd(x.mag, y.mag))
    ELSE IF NatLess(x.mag, y.mag) THEN Z(y.neg, NatSub(y.mag, x.mag))
    ELSE Z(x.neg, NatSub(x.mag, y.mag))

\* x < y
ZLess(x, y) ==
    IF x.neg # y.neg THEN x.neg
    ELSE IF x.neg THEN NatLess(y.mag, x.mag) ELSE NatLess(x.mag, y.mag)

\* x <= y
ZLeq(x, y) == ~ZLess(y, x)

\* x lies in the range of int64.
InInt64(x) == ZLeq(MinInt64, x) /\ ZLeq(x, MaxInt64)

\* The int64 that x wraps around to, for x within 2^64 of the range: Go's
\* integer overflow.
Wrap64(x) ==
    IF ZLess(MaxInt64, x) THEN ZAdd(x, Z(TRUE, Two64))
    ELSE IF ZLess(x, MinInt64) THEN ZAdd(x, Z(FALSE, Two64))
    ELSE x

\* x + y and x - y on int64
Add64(x, y) == Wrap64(ZAdd(x, y))

Sub64(x, y) == Wrap64(ZAdd(x, ZNeg(y)))

(***************************************************************************)
(* float64.  A finite float64 is sign * mag * 1024^exp with mag a natural  *)
(* number of at most 53 bits whose lowest digit is not zero.               *)
(***************************************************************************)
\* a rounded to 53 significant bits, to the nearest and on a tie to the even
\* one; sticky tells that the number rounded lies above a by a fraction.
\* (For a below 2^72.)
Round53(a, sticky) ==
    LET p == NatBits(a) - 53
    IN  IF p <= 0 THEN a
        ELSE LET low == NatVal(NatLow(a, 2))
                 unit == 2 ^ p
                 rem == low % unit
                 down == NatSub(a, NatOf(rem))
                 odd == (low \div unit) % 2 = 1
             IN  IF rem * 2 > unit \/ (rem * 2 = unit /\ (sticky \/ odd))
                 THEN NatAdd(down, NatOf(unit)) ELSE down

RECURSIVE Flt(_, _, _)
\* The finite float64 sign * mag * 1024^exp.
Flt(neg, mag, exp) ==
    IF mag = <<>> THEN [cls |-> "finite", neg |-> FALSE, mag |-> <<>>, exp |-> 0]
    ELSE IF mag[1] = 0 THEN Flt(neg, Tail(mag), exp + 1)
    ELSE [cls |-> "finite", neg |-> neg, mag |-> mag, exp |-> exp]

PosInf == [cls |-> "inf", neg |-> FALSE, mag |-> <<>>, exp |-> 0]

NegInf == [cls |-> "inf", neg |-> TRUE, mag |-> <<>>, exp |-> 0]

NotANumber == [cls |-> "nan", neg |-> FALSE, mag |-> <<>>, exp |-> 0]

\* float64(x) for an int64 x
Float64(x) == Flt(x.neg, Round53(x.mag, FALSE), 0)

\* f * 1024^k: exact (no float64 of the model is near the largest or the
\* smallest one).
FScale(f, k) ==
    IF f.cls = "finite" THEN Flt(f.neg, f.mag, f.exp + k) ELSE f

\* f * m for a small integer m > 0
FMul(f, m) ==
    IF f.cls = "finite"
    THEN Flt(f.neg, Round53(NatMul(f.mag, m), FALSE), f.exp) ELSE f

\* f < 0
FNegative(f) == f.cls # "nan" /\ f.neg

\* The integer part of the magnitude of a finite f.
FIntPart(f) == NatShift(f.mag, f.exp)

\* The fraction of the magnitude of a finite f is one half or more.
FHalfOrMore(f) == f.exp < 0 /\ Digit(f.mag, 0 - f.exp) >= 512

\* math.Round(f): the nearest integer, halves away from zero.
MathRound(f) ==
    IF f.cls = "finite"
    THEN Flt(f.neg,
             IF FHalfOrMore(f) THEN NatAdd(FIntPart(f), <<1>>) ELSE FIntPart(f),
             0)
    ELSE f

\* int64(f): the integer part of f when it is an int64.  Go leaves the result
\* open otherwise: amd64 gives the smallest int64, arm64 the nearest int64
\* and 0 for a NaN.
Int64OfFloat(f) ==
    IF f.cls = "nan" THEN {MinInt64, ToInt64(0), MaxInt64}
    ELSE IF f.cls = "inf" THEN (IF f.neg THEN {MinInt64} ELSE {MinInt64, MaxInt64})
    ELSE LET x == Z(f.neg, FIntPart(f))
         IN  IF InInt64(x) THEN {x}
             ELSE IF f.neg THEN {MinInt64} ELSE {MinInt64, MaxInt64}

(***************************************************************************)
(* getHeadersAndFields, formatters.FormatSize and createDataRow            *)
(***************************************************************************)
RECURSIVE getHeadersAndFields_FlattenAll(_)
\* getHeadersAndFields without the test of field.Anonymous: every field of
\* struct kind is flattened.
getHeadersAndFields_FlattenAll(data) ==
    IF data.kind # "struct" THEN [headers |-> <<>>, fields |-> <<>>]
    ELSE LET names ==
                 Flat([k \in 1..Len(data.fields) |->
                         IF data.fields[k].val.kind = "struct"
                         THEN getHeadersAndFields_FlattenAll(data.fields[k].val).headers
                         ELSE <<data.fields[k].name>>])
         IN  [headers |-> names, fields |-> names]

RECURSIVE getHeadersAndFields_Indirect(_)
\* getHeadersAndFields looking through a pointer, as createDataRow does.
getHeadersAndFields_Indirect(data) ==
    IF Indirect(data).kind # "struct" THEN [headers |-> <<>>, fields |-> <<>>]
    ELSE LET names ==
                 Flat([k \in 1..Len(Indirect(data).fields) |->
                         LET f == Indirect(data).fields[k]
                         IN  IF f.anon /\ f.val.kind = "struct"
                             THEN getHeadersAndFields_Indirect(f.val).headers
                             ELSE <<f.name>>])
         IN  [headers |-> names, fields |-> names]

RECURSIVE getHeadersAndFields(_)
\* getHeadersAndFields(data): the names of the fields in declaration order,
\* an anonymous field of struct kind giving way to the names of (the zero
\* value of) its type.  headers and fields receive the same appends.
getHeadersAndFields(data) ==
    IF data.kind # "struct" THEN [headers |-> <<>>, fields |-> <<>>]
    ELSE [headers |->
              Flat([k \in 1..Len(data.fields) |->
                      IF data.fields[k].anon /\ data.fields[k].val.kind = "struct"
                      THEN getHeadersAndFields(data.fields[k].val).headers
                      ELSE <<data.fields[k].name>>]),
          fields |->
              Flat([k \in 1..Len(data.fields) |->
                      IF data.fields[k].anon /\ data.fields[k].val.kind = "struct"
                      THEN getHeadersAndFields(data.fields[k].val).fields
                      ELSE <<data.fields[k].name>>])]

\* types.SizeUnits, largest first; Size is 1 << Shift.
SizeUnits ==
    << [Label |-> sPB, Shift |-> 50], [Label |-> sTB, Shift |-> 40],
       [Label |-> sGB, Shift |-> 30], [Label |-> sMB, Shift |-> 20],
       [Label |-> sKB, Shift |-> 10], [Label |-> sB, Shift |-> 0] >>

\* unit.Size, a natural number.
UnitSize(unit) == NatShift(<<1>>, unit.Shift \div 10)

\* bytes >= unit.Size for an int64 bytes
AtLeastUnit(bytes, unit) == ~bytes.neg /\ NatLeq(UnitSize(unit), bytes.mag)

RECURSIVE Digits(_)
\* The decimal digits of a natural number.
Digits(n) == IF n < 10 THEN <<48 + n>> ELSE Digits(n \div 10) \o <<48 + (n % 10)>>

\* math.Round(value * 100) for value := float64(bytes) / float64(unit.Size),
\* each operation rounded as float64 rounds it; the result is below 2^31.
RoundHundredths(bytes, unit) ==
    LET value == FScale(Float64(bytes), 0 - (unit.Shift \div 10))
    IN  NatVal(FIntPart(MathRound(FMul(value, 100))))

\* pterm.Sprintf("%.2f %s", roundedValue, unit.Label) for roundedValue the
\* float64 nearest to hundredths / 100, whose two decimals are those of
\* hundredths.
SprintfSize(hundredths, label) ==
    Digits(hundredths \div 100) \o <<46>>
        \o <<48 + ((hundredths % 100) \div 10), 48 + (hundredths % 10)>>
        \o <<32>> \o label

RECURSIVE formatFrom(_, _)
\* The loop of FormatSize from unit k on.
formatFrom(bytes, k) ==
    IF k > Len(SizeUnits) THEN sZeroB
    ELSE IF AtLeastUnit(bytes, SizeUnits[k])
         THEN SprintfSize(RoundHundredths(bytes, SizeUnits[k]),
                          SizeUnits[k].Label)
         ELSE formatFrom(bytes, k + 1)

\* formatters.FormatSize(bytes) for an int64 bytes
FormatSize(bytes) == formatFrom(bytes, 1)

\* A field is exported when its name begins with an upper-case letter;
\* Value.Interface panics on a Value obtained from an unexported field.
IsExported(name) == name # <<>> /\ name[1] >= 65 /\ name[1] <= 90

\* The cell createDataRow appends for one key, or the panic of f.Int() on a
\* field that is no signed integer, or of f.Interface() on an unexported
\* field.
dataCell(v, field) ==
    LET f == FieldByNameFunc(v, field)
    IN  IF f.valid
        THEN IF EqualFold(field, sSize)
             THEN IF f.val.kind = "int"
                  THEN [panic |-> FALSE, cell |-> Str(FormatSize(ToInt64(f.val.v)))]
                  ELSE [panic |-> TRUE, cell |-> Nil]
             ELSE IF IsExported(f.name)
                  THEN [panic |-> FALSE, cell |-> f.val]
                  ELSE [panic |-> TRUE, cell |-> Nil]
        ELSE [panic |-> FALSE, cell |-> Str(sEmpty)]

\* dataCell comparing the key with "Size" letter for letter.
dataCell_SizeCaseSensitive(v, field) ==
    LET f == FieldByNameFunc(v, field)
    IN  IF f.valid
        THEN IF field = sSize
             THEN IF f.val.kind = "int"
                  THEN [panic |-> FALSE, cell |-> Str(FormatSize(ToInt64(f.val.v)))]
                  ELSE [panic |-> TRUE, cell |-> Nil]
             ELSE IF IsExported(f.name)
                  THEN [panic |-> FALSE, cell |-> f.val]
                  ELSE [panic |-> TRUE, cell |-> Nil]
        ELSE [panic |-> FALSE, cell |-> Str(sEmpty)]

\* createDataRow with the keys compared with "Size" letter for letter.
createDataRow_SizeCaseSensitive(data, fields) ==
    LET v == Indirect(data)
    IN  IF fields # <<>> /\ v.kind # "struct"
        THEN [row |-> <<>>, panicked |-> TRUE]
        ELSE LET cells == [k \in 1..Len(fields) |->
                              dataCell_SizeCaseSensitive(v, fields[k])]
             IN  IF \E k \in 1..Len(fields) : cells[k].panic
                 THEN [row |-> <<>>, panicked |-> TRUE]
                 ELSE [row |-> [k \in 1..Len(fields) |-> cells[k].cell],
                       panicked |-> FALSE]

\* createDataRow(data, fields): one cell per key, in the order of the keys;
\* no row is returned when the lookup or a conversion panics.
\* FieldByNameFunc panics on a Value that is no struct.
createDataRow(data, fields) ==
    LET v == Indirect(data)
    IN  IF fields # <<>> /\ v.kind # "struct"
        THEN [row |-> <<>>, panicked |-> TRUE]
        ELSE LET cells == [k \in 1..Len(fields) |-> dataCell(v, fields[k])]
             IN  IF \E k \in 1..Len(fields) : cells[k].panic
                 THEN [row |-> <<>>, panicked |-> TRUE]
                 ELSE [row |-> [k \in 1..Len(fields) |-> cells[k].cell],
                       panicked |-> FALSE]

\* value.Index(i).Interface(), as reflect.ValueOf sees it again: the dynamic
\* value of an interface element, the element itself otherwise.
Interface(v) == IF v.kind = "interface" THEN v.elem ELSE v

\* The values at hand for a call: the caller's value and, when it is a
\* slice, its elements.
DataArgs(v) ==
    {v} \cup (IF v.kind = "slice"
              THEN { Interface(v.elems[k]) : k \in 1..Len(v.elems) } ELSE {})

\* The key lists handed to createDataRow besides the fields of the data.
KeyLists ==
    { <<sName, sSize>>, <<sName, sAge, sNonExistentField>>, <<ssize>>,
      <<sSIZE, sExtra>> }

\* headers, fields := getHeadersAndFields(data)
CallGetHeadersAndFields(data) ==
    /\ ~panicked
    /\ fn' = "getHeadersAndFields"
    /\ args' = [data |-> data]
    /\ ret' = getHeadersAndFields(data)
    /\ panicked' = FALSE
    /\ UNCHANGED <<slice, pc, calls>>

\* row := createDataRow(data, fields)
CallCreateDataRow(data, fields) ==
    /\ ~panicked
    /\ fn' = "createDataRow"
    /\ args' = [data |-> data, fields |-> fields]
    /\ LET r == createDataRow(data, fields)
       IN  /\ ret' = [row |-> r.row]
           /\ panicked' = r.panicked
    /\ UNCHANGED <<slice, pc, calls>>

NextTable ==
    \/ \E d \in DataArgs(slice) : CallGetHeadersAndFields(d)
    \/ \E d \in DataArgs(slice) :
          \E fl \in KeyLists \cup {getHeadersAndFields(d).fields} :
             CallCreateDataRow(d, fl)

\* The caller of the table helpers.
SpecTable == Init /\ [][NextTable]_vars

(***************************************************************************)
(* Properties of getHeadersAndFields and createDataRow.                    *)
(***************************************************************************)
HeadersCalled == fn = "getHeadersAndFields"

RowCalled == fn = "createDataRow"

\* An anonymous field of struct kind.
IsEmbeddedStruct(f) == f.anon /\ f.val.kind = "struct"

RECURSIVE LeafCount(_)
\* The number of fields of struct value e once every embedded struct is
\* replaced by its own fields.
LeafCount(e) ==
    LET n[k \in 0..Len(e.fields)] ==
            IF k = 0 THEN 0
            ELSE n[k - 1] + (IF IsEmbeddedStruct(e.fields[k])
                             THEN LeafCount(e.fields[k].val) ELSE 1)
    IN  n[Len(e.fields)]

\* The number of headers that the fields before field k account for.
Offset(e, k) == LeafCount([e EXCEPT !.fields = SubSeq(e.fields, 1, k - 1)])

\* C8: the headers follow the declaration order of the fields; at the
\* position of an anonymous embedded struct stand that struct's own flattened
\* field names, at the position of any other field, a named struct field
\* included, stands its name alone.  So {A, B} embedded before C gives
\* [A, B, C].
C8_EmbeddedFlattenedInPlace ==
    (HeadersCalled /\ args.data.kind = "struct")
    => LET e == args.data
       IN  /\ Len(ret.headers) = LeafCount(e)
           /\ \A k \in 1..Len(e.fields) :
                 LET f == e.fields[k]
                     from == Offset(e, k) + 1
                 IN  IF IsEmbeddedStruct(f)
                     THEN SubSeq(ret.headers, from, from + LeafCount(f.val) - 1)
                              = getHeadersAndFields(f.val).headers
                     ELSE ret.headers[from] = f.name
           /\ (e \in WithExtras => ret.headers = <<sName, sSize, sExtra>>)
           /\ (e \in Events =>
                   ret.headers = <<sName, sTimestamp, sDone, sOwner>>)
           /\ (e \in Nesteds => ret.headers = <<sA, sB, sC, sOwner, sCount>>)

\* The headers of a struct that embeds {A, {B}} before C and has a named
\* struct field after it.
C8_Witness ==
    /\ HeadersCalled
    /\ args.data \in Nesteds
    /\ IsEmbeddedStruct(args.data.fields[1])
    /\ ~args.data.fields[3].anon /\ args.data.fields[3].val.kind = "struct"
    /\ ret.headers = <<sA, sB, sC, sOwner, sCount>>

\* C9: for a value that is no struct (a string, a number, a pointer to a
\* struct, a slice, nil) both lists are empty and nothing fails.
C9_NonStructGivesNothing ==
    (HeadersCalled /\ args.data.kind # "struct")
    => /\ ret.headers = <<>>
       /\ ret.fields = <<>>
       /\ ~panicked

\* The call made with a pointer to a struct.
C9_Witness ==
    /\ HeadersCalled
    /\ args.data.kind = "ptr"
    /\ ~args.data.nil
    /\ args.data.elem.kind = "struct"
    /\ ret = [headers |-> <<>>, fields |-> <<>>]
    /\ ~panicked

\* Key k of the call is "size" in some spelling and finds a field holding a
\* signed integer.
IsSizeKey(k) ==
    /\ FoldSeq(args.fields[k]) = ssize
    /\ Indirect(args.data).kind = "struct"
    /\ Resolves(Indirect(args.data), args.fields[k])
    /\ Key(Indirect(args.data), args.fields[k]).kind = "int"

\* C10: the cell of a key that equals "size" ignoring case and finds a field
\* holding the signed integer n is the string FormatSize(n), not the integer:
\* "1.00 KB" for 1024, "0 B" for 0.  Such a key alone never makes the call
\* fail.
C10_SizeCellFormatted ==
    RowCalled =>
        \A k \in 1..Len(args.fields) :
            IsSizeKey(k) =>
                LET n == Key(Indirect(args.data), args.fields[k]).v
                    alone == createDataRow(args.data, <<args.fields[k]>>)
                IN  /\ ~alone.panicked
                    /\ alone.row = <<Str(FormatSize(ToInt64(n)))>>
                    /\ (n = 1024 => alone.row = <<Str(sOneKB)>>)
                    /\ (n = 0 => alone.row = <<Str(sZeroB)>>)
                    /\ ~panicked =>
                          /\ Len(ret.row) = Len(args.fields)
                          /\ ret.row[k] = alone.row[1]
                          /\ ret.row[k].kind = "string"

\* {Name: "test.txt", Size: 1024} with keys [Name, Size] gave
\* ["test.txt", "1.00 KB"].
C10_Witness ==
    /\ RowCalled
    /\ args.data = MockFileInfo(sTestTxt, 1024)
    /\ args.fields = <<sName, sSize>>
    /\ ~panicked
    /\ ret.row = <<Str(sTestTxt), Str(sOneKB)>>

\* Key k of the call is "size" in some spelling and finds a field that holds
\* no signed integer.
IsNonIntSizeKey(k) ==
    /\ FoldSeq(args.fields[k]) = ssize
    /\ Indirect(args.data).kind = "struct"
    /\ Resolves(Indirect(args.data), args.fields[k])
    /\ Key(Indirect(args.data), args.fields[k]).kind # "int"

\* C11 as stated: the cell of a key that equals "size" ignoring case and finds
\* a field holding a string, an unsigned integer, a float or a struct is that
\* value unchanged, and the call returns normally.
C11_NonIntSizeKeptRaw ==
    RowCalled =>
        \A k \in 1..Len(args.fields) :
            IsNonIntSizeKey(k) =>
                LET x == Key(Indirect(args.data), args.fields[k])
                    alone == createDataRow(args.data, <<args.fields[k]>>)
                IN  /\ ~alone.panicked
                    /\ alone.row = <<x>>
                    /\ ~panicked
                    /\ ret.row[k] = x

\* Key k of the call is not "size" in any spelling.
IsPlainKey(k) == FoldSeq(args.fields[k]) # ssize

\* C12 as stated: for a key other than "size" the cell is the value of the
\* field the key finds ignoring case, with its own type, and the empty string
\* when it finds none; no failure is raised.  So {Name: "Bob", Age: 25} with
\* keys [Name, Age, NonExistentField] gives ["Bob", 25, ""].
C12_RawValueOrEmpty ==
    (RowCalled /\ Indirect(args.data).kind = "struct")
    => \A k \in 1..Len(args.fields) :
          IsPlainKey(k) =>
              LET e == Indirect(args.data)
                  alone == createDataRow(args.data, <<args.fields[k]>>)
                  cell == IF Resolves(e, args.fields[k])
                          THEN Key(e, args.fields[k]) ELSE Str(sEmpty)
              IN  /\ ~alone.panicked
                  /\ alone.row = <<cell>>
                  /\ ~panicked => ret.row[k] = cell

(***************************************************************************)
(* GenericRenderResultsTableInterface, createHeaderRow, createFooterRow    *)
(***************************************************************************)
sExpectedASlice == <<69, 120, 112, 101, 99, 116, 101, 100, 32, 97, 32, 115, 108, 105, 99, 101>>  \* "Expected a slice"
sTotal == <<84, 111, 116, 97, 108>>                 \* "Total"
sNAME == <<78, 65, 77, 69>>                         \* "NAME"

\* createHeaderRow(headers): one cell per header.
createHeaderRow(headers) == [k \in 1..Len(headers) |-> Str(headers[k])]

\* createFooterRow looking the header up ignoring case, as the row lookup
\* does.
createFooterRow_FoldedLookup(headers, totalValues) ==
    [k \in 1..Len(headers) |->
        IF \E key \in DOMAIN totalValues : EqualFold(key, headers[k])
        THEN totalValues[CHOOSE key \in DOMAIN totalValues :
                             EqualFold(key, headers[k])]
        ELSE Str(sEmpty)]

\* createFooterRow(headers, totalValues): totalValues is a Go map, a function
\* on its set of keys; totalValues[header] exists for a key equal to header.
createFooterRow(headers, totalValues) ==
    [k \in 1..Len(headers) |->
        IF headers[k] \in DOMAIN totalValues
        THEN totalValues[headers[k]] ELSE Str(sEmpty)]

\* What has reached standard output and the table writer when nothing has
\* been printed or appended.
NoOutput ==
    [printed |-> <<>>, header |-> <<>>, rows |-> <<>>, footer |-> <<>>,
     rendered |-> FALSE]

\* GenericRenderResultsTableInterface(slice, totalValues).  header, rows and
\* footer are the rows appended to the table writer, which reach standard
\* output with t.Render() only; value.Index(0) panics on an empty slice, and
\* a panic of createDataRow ends the call before anything is rendered.
renderTable(v, totalValues) ==
    IF v.kind # "slice"
    THEN [out |-> [NoOutput EXCEPT !.printed = <<sExpectedASlice>>],
          panicked |-> FALSE]
    ELSE IF Len(v.elems) = 0
    THEN [out |-> NoOutput, panicked |-> TRUE]
    ELSE LET hf == getHeadersAndFields(Interface(v.elems[1]))
             rows == [i \in 1..Len(v.elems) |->
                         createDataRow(Interface(v.elems[i]), hf.fields)]
         IN  IF \E i \in 1..Len(v.elems) : rows[i].panicked
             THEN [out |-> NoOutput, panicked |-> TRUE]
             ELSE [out |->
                       [printed |-> <<>>,
                        header |-> <<createHeaderRow(hf.headers)>>,
                        rows |-> [i \in 1..Len(v.elems) |-> rows[i].row],
                        footer |->
                            IF Cardinality(DOMAIN totalValues) > 0
                            THEN <<createFooterRow(hf.headers, totalValues)>>
                            ELSE <<>>,
                        rendered |-> TRUE],
                   panicked |-> FALSE]

\* The maps of total values: nil, the map of the tests, a map for one header,
\* and a map whose keys differ from the headers by letter case.
TotalValues ==
    { <<>>,
      (sName :> Str(sTotal)) @@ (sAge :> IntV(55)) @@ (sSize :> IntV(3072)),
      (sAge :> IntV(55)),
      (sNAME :> Str(sTotal)) @@ (sage :> IntV(55)) @@ (sSize :> IntV(3072)) }

\* The header lists handed to createFooterRow besides the headers of the data.
HeaderLists ==
    { <<sName, sAge, sSize>>, <<sName, sAge, sSize, sExtra>>, <<>> }

\* GenericRenderResultsTableInterface(slice, totalValues)
CallRender(totalValues) ==
    /\ ~panicked
    /\ fn' = "GenericRenderResultsTableInterface"
    /\ args' = [slice |-> slice, totalValues |-> totalValues]
    /\ LET r == renderTable(slice, totalValues)
       IN  /\ ret' = r.out
           /\ panicked' = r.panicked
    /\ UNCHANGED <<slice, pc, calls>>

\* row := createFooterRow(headers, totalValues)
CallCreateFooterRow(headers, totalValues) ==
    /\ ~panicked
    /\ fn' = "createFooterRow"
    /\ args' = [headers |-> headers, totalValues |-> totalValues]
    /\ ret' = [row |-> createFooterRow(headers, totalValues)]
    /\ panicked' = FALSE
    /\ UNCHANGED <<slice, pc, calls>>

NextRender ==
    \/ \E tv \in TotalValues : CallRender(tv)
    \/ \E d \in DataArgs(slice), tv \in TotalValues :
          \E hs \in HeaderLists \cup {getHeadersAndFields(d).headers} :
             CallCreateFooterRow(hs, tv)

\* The caller of the renderer.
SpecRender == Init /\ [][NextRender]_vars

(***************************************************************************)
(* Properties of the renderer and of createFooterRow.                      *)
(***************************************************************************)
RenderCalled == fn = "GenericRenderResultsTableInterface"

FooterCalled == fn = "createFooterRow"

\* C13 as stated: a call with a value that is no slice, or with an empty
\* slice, appends no header, data or footer row, prints at most a diagnostic
\* line and returns normally.
C13_NothingRenderedNoFailure ==
    (/\ RenderCalled
     /\ (args.slice.kind # "slice" \/ args.slice.elems = <<>>))
    => /\ ~panicked
       /\ ret.header = <<>>
       /\ ret.rows = <<>>
       /\ ret.footer = <<>>
       /\ ~ret.rendered
       /\ Len(ret.printed) <= 1

\* C14: the footer row has one cell per header, in the order of the headers:
\* the value of the map at the key equal to the header letter for letter, the
\* empty string when there is no such key, also when a key differs from the
\* header by letter case only.  So headers [Name, Age, Size, Extra] with
\* totals for Name, Age and Size give ["Total", 55, 3072, ""].
C14_FooterExactKeys ==
    FooterCalled =>
        /\ ~panicked
        /\ Len(ret.row) = Len(args.headers)
        /\ \A k \in 1..Len(args.headers) :
              LET h == args.headers[k]
              IN  /\ (\E key \in DOMAIN args.totalValues : key = h)
                        => ret.row[k] = args.totalValues[h]
                  /\ (\A key \in DOMAIN args.totalValues : key # h)
                        => ret.row[k] = Str(sEmpty)
        /\ (/\ args.headers = <<sName, sAge, sSize, sExtra>>
            /\ DOMAIN args.totalValues = {sName, sAge, sSize})
           => ret.row = <<Str(sTotal), IntV(55), IntV(3072), Str(sEmpty)>>

\* Headers [Name, Age, Size] with totals under NAME, age and Size gave
\* ["", "", 3072].
C14_Witness ==
    /\ FooterCalled
    /\ args.headers = <<sName, sAge, sSize>>
    /\ DOMAIN args.totalValues = {sNAME, sage, sSize}
    /\ ret.row = <<Str(sEmpty), Str(sEmpty), IntV(3072)>>

(***************************************************************************)
(* formatters.FormatSize on its own.                                       *)
(***************************************************************************)
s655_41TB == <<54, 53, 53, 46, 52, 49, 32, 84, 66>>  \* "655.41 TB"
sOnePB == <<49, 46, 48, 48, 32, 80, 66>>             \* "1.00 PB"

\* 720636413518807 bytes: 655.41499999999999995... TB, whose product with 100
\* is, rounded to float64, 65541.5.
NearHalfTB == Z(FALSE, <<983, 40, 983, 424, 655>>)

\* An int64 as the caller holds it.
Int64V(x) == [kind |-> "int64", v |-> x]

\* The byte counts: 0, a negative one, the largest int64, and for every unit
\* the counts with a leading digit d, a next digit e and lower digits all 0
\* or all 1023, the boundaries of the units and of the hundredths among them.
ByteCounts ==
    { ToInt64(0), ToInt64(0 - 1), MaxInt64, NearHalfTB }
    \cup { Z(FALSE, NatNorm([i \in 1..(k + 1) |->
                                IF i = k + 1 THEN d
                                ELSE IF i = k THEN e ELSE rest])) :
              k \in 0..6, d \in {1, 2, 7, 655, 1023},
              e \in {0, 5, 512, 1023}, rest \in {0, 1023} }

InitSize ==
    /\ slice \in { Int64V(b) : b \in { x \in ByteCounts : InInt64(x) } }
    /\ fn = "none"
    /\ args = <<>>
    /\ ret = <<>>
    /\ panicked = FALSE
    /\ pc = "idle"
    /\ calls = <<>>

\* s := FormatSize(bytes)
CallFormatSize ==
    /\ fn = "none"
    /\ fn' = "FormatSize"
    /\ args' = [bytes |-> slice.v]
    /\ ret' = FormatSize(slice.v)
    /\ UNCHANGED <<slice, panicked, pc, calls>>

NextSize == CallFormatSize

\* The caller of FormatSize.
SpecSize == InitSize /\ [][NextSize]_vars

SizeCalled == fn = "FormatSize"

\* The largest unit whose size is at most the natural number n >= 1.
UnitOf(n) ==
    SizeUnits[CHOOSE k \in 1..Len(SizeUnits) :
                 /\ NatLeq(UnitSize(SizeUnits[k]), n)
                 /\ \A j \in 1..Len(SizeUnits) :
                       NatLeq(UnitSize(SizeUnits[j]), n)
                           => SizeUnits[j].Shift <= SizeUnits[k].Shift]

\* n / size in hundredths, rounded to the nearest hundredth in exact
\* arithmetic, for size = 1024^k.
ExactHundredths(n, k) ==
    LET x == NatMul(n, 100)
        q == NatShift(x, 0 - k)
    IN  NatVal(IF k > 0 /\ Digit(x, k) >= 512 THEN NatAdd(q, <<1>>) ELSE q)

\* C15 as stated: for bytes >= 1 the result is "<v> <U>", U the label of the
\* largest unit of at most bytes and v the quotient of bytes by that unit
\* rounded to two decimals and printed with two decimals; the result for 0
\* is "0 B".
C15_FormatSizeRounds ==
    SizeCalled =>
        /\ args.bytes = ToInt64(0) => ret = sZeroB
        /\ (~args.bytes.neg /\ args.bytes.mag # <<>>) =>
              LET u == UnitOf(args.bytes.mag)
              IN  ret = SprintfSize(
                            ExactHundredths(args.bytes.mag, u.Shift \div 10),
                            u.Label)
        /\ args.bytes = ToInt64(1024) => ret = sOneKB
        /\ args.bytes = Z(FALSE, NatShift(<<1>>, 5)) => ret = sOnePB
        /\ args.bytes = NearHalfTB => ret = s655_41TB

(***************************************************************************)
(* utils.CalculateTolerances and utils.GetOperatorSizeMatches              *)
(***************************************************************************)
sWantedNegative == <<119, 97, 110, 116, 101, 100, 70, 105, 108, 101, 83, 105, 122, 101, 32, 99, 97, 110, 110, 111, 116, 32, 98, 101, 32, 110, 101, 103, 97, 116, 105, 118, 101>>  \* "wantedFileSize cannot be negative"
sToleranceNegative == <<116, 111, 108, 101, 114, 97, 110, 99, 101, 83, 105, 122, 101, 32, 99, 97, 110, 110, 111, 116, 32, 98, 101, 32, 110, 101, 103, 97, 116, 105, 118, 101>>  \* "toleranceSize cannot be negative"
sErrorCalculating == <<101, 114, 114, 111, 114, 32, 99, 97, 108, 99, 117, 108, 97, 116, 105, 110, 103, 32, 116, 111, 108, 101, 114, 97, 110, 99, 101, 115, 32>>  \* "error calculating tolerances "

\* A nil error and the error of a message.
NoError == [nil |-> TRUE, msg |-> <<>>]

Errorf(msg) == [nil |-> FALSE, msg |-> msg]

\* types.ToleranceResults
ToleranceResults(t, u, l) ==
    [ToleranceSize |-> t, UpperBoundSize |-> u, LowerBoundSize |-> l]

\* types.OperatorTypes, and an operator that is none of them.
EqualTo == "Equal To"

GreaterThan == "Greater Than"

GreaterThanEqualTo == "Greater Than or Equal To"

LessThan == "Less Than"

LessThanEqualTo == "Less Than Or Equal To"

Operators ==
    {EqualTo, GreaterThan, GreaterThanEqualTo, LessThan, LessThanEqualTo,
     "invalid"}

\* CalculateTolerances testing the tolerance before the wanted size.
calculateTolerances_ToleranceFirst(wantedFileSize, toleranceSize, toleranceBytes) ==
    IF FNegative(toleranceSize)
    THEN [results |-> ToleranceResults(ToInt64(0), ToInt64(0), ToInt64(0)),
          err |-> Errorf(sToleranceNegative)]
    ELSE IF ZLess(wantedFileSize, ToInt64(0))
    THEN [results |-> ToleranceResults(ToInt64(0), ToInt64(0), ToInt64(0)),
          err |-> Errorf(sWantedNegative)]
    ELSE LET upperBoundSize == Add64(wantedFileSize, toleranceBytes)
             lowerBoundSize == Sub64(wantedFileSize, toleranceBytes)
         IN  [results |->
                  ToleranceResults(toleranceBytes, upperBoundSize,
                                   IF ZLess(lowerBoundSize, ToInt64(0))
                                   THEN ToInt64(0) ELSE lowerBoundSize),
              err |-> NoError]

\* CalculateTolerances(wantedFileSize, toleranceSize), toleranceBytes being
\* what int64(toleranceSize * 1024) gave.
calculateTolerances(wantedFileSize, toleranceSize, toleranceBytes) ==
    IF ZLess(wantedFileSize, ToInt64(0))
    THEN [results |-> ToleranceResults(ToInt64(0), ToInt64(0), ToInt64(0)),
          err |-> Errorf(sWantedNegative)]
    ELSE IF FNegative(toleranceSize)
    THEN [results |-> ToleranceResults(ToInt64(0), ToInt64(0), ToInt64(0)),
          err |-> Errorf(sToleranceNegative)]
    ELSE LET upperBoundSize == Add64(wantedFileSize, toleranceBytes)
             lowerBoundSize == Sub64(wantedFileSize, toleranceBytes)
         IN  [results |->
                  ToleranceResults(toleranceBytes, upperBoundSize,
                                   IF ZLess(lowerBoundSize, ToInt64(0))
                                   THEN ToInt64(0) ELSE lowerBoundSize),
              err |-> NoError]

\* The outcomes of int64(toleranceSize * 1024).
ToleranceBytes(toleranceSize) == Int64OfFloat(FScale(toleranceSize, 1))

\* GetOperatorSizeMatches with the ordering operators compared with the
\* bounds, not with the wanted size.
getOperatorSizeMatches_ToleranceWidens(operator, wantedFileSize, toleranceSize, fileSize, toleranceBytes) ==
    LET c == calculateTolerances(wantedFileSize, toleranceSize, toleranceBytes)
        within == /\ ZLeq(c.results.LowerBoundSize, fileSize)
                  /\ ZLeq(fileSize, c.results.UpperBoundSize)
    IN  IF ~c.err.nil
        THEN [match |-> FALSE,
              err |-> Errorf(sErrorCalculating \o c.err.msg)]
        ELSE [match |->
                  CASE operator = EqualTo -> within
                    [] operator = LessThan ->
                          ZLess(fileSize, c.results.LowerBoundSize)
                    [] operator = LessThanEqualTo ->
                          ZLeq(fileSize, c.results.UpperBoundSize)
                    [] operator = GreaterThan ->
                          ZLess(c.results.UpperBoundSize, fileSize)
                    [] operator = GreaterThanEqualTo ->
                          ZLeq(c.results.LowerBoundSize, fileSize)
                    [] OTHER -> within,
              err |-> NoError]

\* GetOperatorSizeMatches(operator, wantedFileSize, toleranceSize, fileSize)
getOperatorSizeMatches(operator, wantedFileSize, toleranceSize, fileSize, toleranceBytes) ==
    LET c == calculateTolerances(wantedFileSize, toleranceSize, toleranceBytes)
        within == /\ ZLeq(c.results.LowerBoundSize, fileSize)
                  /\ ZLeq(fileSize, c.results.UpperBoundSize)
    IN  IF ~c.err.nil
        THEN [match |-> FALSE,
              err |-> Errorf(sErrorCalculating \o c.err.msg)]
        ELSE [match |->
                  CASE operator = EqualTo -> within
                    [] operator = LessThan -> ZLess(fileSize, wantedFileSize)
                    [] operator = LessThanEqualTo ->
                          ZLeq(fileSize, wantedFileSize)
                    [] operator = GreaterThan -> ZLess(wantedFileSize, fileSize)
                    [] operator = GreaterThanEqualTo ->
                          ZLeq(wantedFileSize, fileSize)
                    [] OTHER -> within,
              err |-> NoError]

\* The wanted sizes, the tolerances and the file sizes of the tests, and the
\* ends of their types.
WantedSizes ==
    { ToInt64(0 - 1024), ToInt64(0 - 1), MinInt64, ToInt64(0), ToInt64(500),
      ToInt64(1024), ToInt64(2048), ToInt64(315000),
      Z(FALSE, <<0, 0, 0, 10>>), MaxInt64 }

Tolerances ==
    { Flt(TRUE, <<5>>, 0), Flt(TRUE, <<50>>, 0), NegInf, NotANumber,
      Flt(FALSE, <<>>, 0), Flt(FALSE, <<208, 819, 204, 819, 204, 51>>, -6),
      Flt(FALSE, <<512>>, 0 - 1), Flt(FALSE, <<1>>, 0), Flt(FALSE, <<10>>, 0),
      Flt(FALSE, <<600>>, 0), Flt(FALSE, <<8>>, 5), PosInf }

FileSizes ==
    { ToInt64(0 - 1), ToInt64(0), ToInt64(1022), ToInt64(1023), ToInt64(1024),
      ToInt64(1025), ToInt64(1050), ToInt64(2049), ToInt64(314950),
      ToInt64(330000), MaxInt64 }

\* What the caller holds: a wanted size, a tolerance and a file size.
SizeQuery(w, t, f) ==
    [kind |-> "query", wantedFileSize |-> w, toleranceSize |-> t,
     fileSize |-> f]

InitTolerance ==
    /\ slice \in { SizeQuery(w, t, f) :
                      w \in WantedSizes, t \in Tolerances, f \in FileSizes }
    /\ fn = "none"
    /\ args = <<>>
    /\ ret = <<>>
    /\ panicked = FALSE
    /\ pc = "idle"
    /\ calls = <<>>

\* results, err := CalculateTolerances(wantedFileSize, toleranceSize)
CallCalculateTolerances ==
    /\ fn' = "CalculateTolerances"
    /\ args' = [wantedFileSize |-> slice.wantedFileSize,
                toleranceSize |-> slice.toleranceSize]
    /\ \E tb \in ToleranceBytes(slice.toleranceSize) :
          ret' = calculateTolerances(slice.wantedFileSize,
                                     slice.toleranceSize, tb)
    /\ UNCHANGED <<slice, panicked, pc, calls>>

\* match, err := GetOperatorSizeMatches(operator, wantedFileSize,
\*                                      toleranceSize, fileSize)
CallGetOperatorSizeMatches(operator) ==
    /\ fn' = "GetOperatorSizeMatches"
    /\ args' = [operator |-> operator,
                wantedFileSize |-> slice.wantedFileSize,
                toleranceSize |-> slice.toleranceSize,
                fileSize |-> slice.fileSize]
    /\ \E tb \in ToleranceBytes(slice.toleranceSize) :
          ret' = getOperatorSizeMatches(operator, slice.wantedFileSize,
                                        slice.toleranceSize, slice.fileSize,
                                        tb)
    /\ UNCHANGED <<slice, panicked, pc, calls>>

NextTolerance ==
    \/ CallCalculateTolerances
    \/ \E op \in Operators : CallGetOperatorSizeMatches(op)

\* The caller of the size matching.
SpecTolerance == InitTolerance /\ [][NextTolerance]_vars

(***************************************************************************)
(* Properties of CalculateTolerances and GetOperatorSizeMatches.           *)
(***************************************************************************)
CalculateCalled == fn = "CalculateTolerances"

MatchCalled == fn = "GetOperatorSizeMatches"

\* wantedFileSize >= 0 and toleranceSize >= 0 in the call made.
NonNegativeArgs ==
    /\ ~args.wantedFileSize.neg
    /\ args.toleranceSize.cls # "nan"
    /\ ~args.toleranceSize.neg

\* wantedFileSize < 0 or toleranceSize < 0 in the call made.
NegativeArg == args.wantedFileSize.neg \/ FNegative(args.toleranceSize)

\* The larger of two integers.
ZMax(x, y) == IF ZLess(x, y) THEN y ELSE x

\* C16 as stated: for wantedFileSize >= 0 and toleranceSize >= 0 the error is
\* nil, ToleranceSize is toleranceSize * 1024 cut to an integer,
\* UpperBoundSize is wantedFileSize + ToleranceSize, LowerBoundSize is
\* max(0, wantedFileSize - ToleranceSize), and so
\* 0 <= LowerBoundSize <= wantedFileSize <= UpperBoundSize.
C16_BoundsAroundWanted ==
    (CalculateCalled /\ NonNegativeArgs) =>
        LET w == args.wantedFileSize
            r == ret.results
        IN  /\ ret.err.nil
            /\ args.toleranceSize.cls = "finite"
            /\ r.ToleranceSize
                   = Z(FALSE, FIntPart(FScale(args.toleranceSize, 1)))
            /\ r.UpperBoundSize = ZAdd(w, r.ToleranceSize)
            /\ r.LowerBoundSize
                   = ZMax(ToInt64(0), ZAdd(w, ZNeg(r.ToleranceSize)))
            /\ ZLeq(ToInt64(0), r.LowerBoundSize)
            /\ ZLeq(r.LowerBoundSize, w)
            /\ ZLeq(w, r.UpperBoundSize)

\* fileSize lies within the bounds of results.
Within(results, fileSize) ==
    /\ ZLeq(results.LowerBoundSize, fileSize)
    /\ ZLeq(fileSize, results.UpperBoundSize)

\* The results CalculateTolerances can return for the arguments of the call.
PossibleResults ==
    { calculateTolerances(args.wantedFileSize, args.toleranceSize, tb).results :
          tb \in ToleranceBytes(args.toleranceSize) }

\* C17: for wantedFileSize >= 0 and toleranceSize >= 0 the error is nil and
\* the result is: for EqualTo, and for an operator that is none of the five,
\* LowerBoundSize <= fileSize <= UpperBoundSize; for the ordering operators
\* the comparison of fileSize with wantedFileSize itself, whatever the
\* tolerance.  So with wanted size 1024 and tolerance 1.0 (1024 bytes) the
\* file size 1050 is EqualTo and 2049 is not, and 1025 is not LessThan.
C17_OperatorsCompare ==
    (MatchCalled /\ NonNegativeArgs) =>
        LET w == args.wantedFileSize
            f == args.fileSize
            op == args.operator
            t == args.toleranceSize
        IN  /\ ret.err.nil
            /\ op = LessThan => (ret.match <=> ZLess(f, w))
            /\ op = LessThanEqualTo => (ret.match <=> ZLeq(f, w))
            /\ op = GreaterThan => (ret.match <=> ZLess(w, f))
            /\ op = GreaterThanEqualTo => (ret.match <=> ZLeq(w, f))
            /\ op \notin {LessThan, LessThanEqualTo, GreaterThan,
                          GreaterThanEqualTo}
                  => \E r \in PossibleResults : ret.match <=> Within(r, f)
            /\ (/\ op \in {EqualTo, "invalid"}
                /\ w = ToInt64(1024) /\ t = Flt(FALSE, <<1>>, 0))
                  => /\ f = ToInt64(1050) => ret.match
                     /\ f = ToInt64(1025) => ret.match
                     /\ f = ToInt64(2049) => ~ret.match
                     /\ f = ToInt64(0) => ret.match
            /\ (/\ op = EqualTo
                /\ w = ToInt64(315000) /\ t.cls = "finite" /\ t.exp < 0 - 1)
                  => /\ f = ToInt64(314950) => ret.match
                     /\ f = ToInt64(330000) => ~ret.match

\* LessThan with wanted size 1024, tolerance 1.0 and file size 1025 gave
\* false: the tolerance did not widen the comparison.
C17_Witness ==
    /\ MatchCalled
    /\ args.operator = LessThan
    /\ args.wantedFileSize = ToInt64(1024)
    /\ args.toleranceSize = Flt(FALSE, <<1>>, 0)
    /\ args.fileSize = ToInt64(1025)
    /\ ret = [match |-> FALSE, err |-> NoError]

\* C18: with wantedFileSize < 0 or toleranceSize < 0, CalculateTolerances
\* returns the zero ToleranceResults and an error, the one about
\* wantedFileSize when both are negative; GetOperatorSizeMatches returns
\* false and an error that begins with "error calculating tolerances", for
\* every operator.
C18_NegativeArgumentRejected ==
    /\ (CalculateCalled /\ NegativeArg) =>
          /\ ret.results
                 = ToleranceResults(ToInt64(0), ToInt64(0), ToInt64(0))
          /\ ~ret.err.nil
          /\ ret.err.msg = IF args.wantedFileSize.neg
                           THEN sWantedNegative ELSE sToleranceNegative
    /\ (MatchCalled /\ NegativeArg) =>
          /\ ~ret.match
          /\ ~ret.err.nil
          /\ Len(ret.err.msg) > Len(sErrorCalculating)
          /\ SubSeq(ret.err.msg, 1, Len(sErrorCalculating))
                 = sErrorCalculating
          /\ args.wantedFileSize.neg =>
                ret.err.msg = sErrorCalculating \o sWantedNegative

\* GreaterThan with wanted size -1 and tolerance -5 gave false and the error
\* about wantedFileSize.
C18_Witness ==
    /\ MatchCalled
    /\ args.operator = GreaterThan
    /\ args.wantedFileSize = ToInt64(0 - 1)
    /\ args.toleranceSize = Flt(TRUE, <<5>>, 0)
    /\ ~ret.match
    /\ ret.err = Errorf(sErrorCalculating \o sWantedNegative)

(***************************************************************************)
(* utils.ConvertStringSizeToBytes.  The strings of the model are ASCII, so *)
(* that a rune is a byte.                                                  *)
(***************************************************************************)
sSizeEmpty == <<115, 105, 122, 101, 32, 99, 97, 110, 110, 111, 116, 32, 98, 101, 32, 101, 109, 112, 116, 121>>  \* "size cannot be empty"
sInvalidFormat == <<105, 110, 118, 97, 108, 105, 100, 32, 115, 105, 122, 101, 32, 102, 111, 114, 109, 97, 116>>  \* "invalid size format"
sInvalidUnit == <<105, 110, 118, 97, 108, 105, 100, 32, 115, 105, 122, 101, 32, 117, 110, 105, 116>>  \* "invalid size unit"
sParsing == <<115, 116, 114, 99, 111, 110, 118, 46, 80, 97, 114, 115, 101, 70, 108, 111, 97, 116, 58, 32, 112, 97, 114, 115, 105, 110, 103, 32>>  \* "strconv.ParseFloat: parsing "
sInvalidSyntax == <<58, 32, 105, 110, 118, 97, 108, 105, 100, 32, 115, 121, 110, 116, 97, 120>>  \* ": invalid syntax"

\* unicode.IsSpace, unicode.IsLetter and unicode.ToUpper on ASCII.
IsSpace(c) == c = 32 \/ (c >= 9 /\ c <= 13)

IsLetter(c) == (c >= 65 /\ c <= 90) \/ (c >= 97 /\ c <= 122)

IsDigit(c) == c >= 48 /\ c <= 57

UpperByte(c) == IF c >= 97 /\ c <= 122 THEN c - 32 ELSE c

\* strings.ToUpper(s)
ToUpper(s) == [k \in 1..Len(s) |-> UpperByte(s[k])]

RECURSIVE TrimLeft(_)
TrimLeft(s) ==
    IF s # <<>> /\ IsSpace(s[1]) THEN TrimLeft(Tail(s)) ELSE s

RECURSIVE TrimRight(_)
TrimRight(s) ==
    IF s # <<>> /\ IsSpace(s[Len(s)])
    THEN TrimRight(SubSeq(s, 1, Len(s) - 1)) ELSE s

\* strings.TrimSpace(s)
TrimSpace(s) == TrimRight(TrimLeft(s))

\* The index of the first letter of s, 0 when it has none.
FirstLetter(s) ==
    IF \E i \in 1..Len(s) : IsLetter(s[i])
    THEN CHOOSE i \in 1..Len(s) :
             IsLetter(s[i]) /\ \A j \in 1..(i - 1) : ~IsLetter(s[j])
    ELSE 0

\* s without a leading sign.
Unsigned(s) == IF s # <<>> /\ s[1] \in {43, 45} THEN Tail(s) ELSE s

\* s is a decimal numeral as strconv.ParseFloat reads one when s holds no
\* letter and no underscore: an optional sign, then digits with at most one
\* point among them and one digit at least.
IsDecimal(s) ==
    LET u == Unsigned(s)
    IN  /\ \A i \in 1..Len(u) : IsDigit(u[i]) \/ u[i] = 46
        /\ Cardinality({ i \in 1..Len(u) : u[i] = 46 }) <= 1
        /\ \E i \in 1..Len(u) : IsDigit(u[i])

RECURSIVE DigitsValue(_, _)
\* The natural number of the digits of s, points skipped, after acc.
DigitsValue(s, acc) ==
    IF s = <<>> THEN acc
    ELSE IF s[1] = 46 THEN DigitsValue(Tail(s), acc)
    ELSE DigitsValue(Tail(s), NatAdd(NatMul(acc, 10), NatOf(s[1] - 48)))

\* The number of digits of s after its point.
Decimals(s) ==
    IF \E i \in 1..Len(s) : s[i] = 46
    THEN Len(s) - (CHOOSE i \in 1..Len(s) : s[i] = 46)
    ELSE 0

RECURSIVE DivTen(_, _, _)
\* a / 10^d: the integer part, and whether a fraction was cut off.
DivTen(a, d, cut) ==
    IF d = 0 THEN [q |-> a, cut |-> cut]
    ELSE LET x == NatDiv(a, 10)
         IN  DivTen(x.q, d - 1, cut \/ x.r # 0)

RECURSIVE ScaleFor(_, _, _)
\* The least k from k on for which a * 1024^k has bits bits at least.
ScaleFor(a, bits, k) ==
    IF NatBits(NatShift(a, k)) >= bits THEN k ELSE ScaleFor(a, bits, k + 1)

\* The float64 nearest to the decimal numeral s (of at most five decimals and
\* a value below 2^53): strconv.ParseFloat(s, 64) for a numeral in range.
DecimalToFloat(s) ==
    LET u == Unsigned(s)
        neg == s[1] = 45
        n == DigitsValue(u, <<>>)
        d == Decimals(u)
    IN  IF n = <<>> THEN Flt(FALSE, <<>>, 0)
        ELSE IF d = 0 THEN Flt(neg, Round53(n, FALSE), 0)
        ELSE LET k == ScaleFor(n, 56 + 4 * d, 0)
                 x == DivTen(NatShift(n, k), d, FALSE)
             IN  Flt(neg, Round53(x.q, x.cut), 0 - k)

\* strconv.Quote(s) for printable ASCII without quotes and backslashes.
Quote(s) == <<34>> \o s \o <<34>>

\* strconv.ParseFloat(s, 64)
ParseFloat(s) ==
    IF IsDecimal(s) THEN [num |-> DecimalToFloat(s), err |-> NoError]
    ELSE [num |-> Flt(FALSE, <<>>, 0),
          err |-> Errorf(sParsing \o Quote(s) \o sInvalidSyntax)]

\* The units whose Label is unitStr, in the order of types.SizeUnits.
UnitsLabelled(unitStr) == SelectSeq(SizeUnits, LAMBDA u : u.Label = unitStr)

\* The results of a call that failed with message msg.
Failed(msg) == { [result |-> ToInt64(0), err |-> Errorf(msg)] }

\* ConvertStringSizeToBytes looking for the unit before it parses the number.
convertStringSizeToBytes_UnitFirst(sizeStr) ==
    LET trimmed == TrimSpace(sizeStr)
        i == FirstLetter(trimmed)
        numStr == IF i = 0 THEN <<>> ELSE TrimSpace(SubSeq(trimmed, 1, i - 1))
        unitStr == IF i = 0 THEN <<>>
                   ELSE ToUpper(TrimSpace(SubSeq(trimmed, i, Len(trimmed))))
        parsed == ParseFloat(numStr)
        units == UnitsLabelled(unitStr)
    IN  IF trimmed = <<>> THEN Failed(sSizeEmpty)
        ELSE IF unitStr = <<>> \/ numStr = <<>> THEN Failed(sInvalidFormat)
        ELSE IF units = <<>> THEN Failed(sInvalidUnit)
        ELSE IF ~parsed.err.nil
        THEN { [result |-> ToInt64(0), err |-> parsed.err] }
        ELSE { [result |-> r, err |-> NoError] :
                  r \in Int64OfFloat(FScale(parsed.num, units[1].Shift \div 10)) }

\* ConvertStringSizeToBytes(sizeStr): the results it can return, more than
\* one when the product leaves the range of int64.
convertStringSizeToBytes(sizeStr) ==
    LET trimmed == TrimSpace(sizeStr)
        i == FirstLetter(trimmed)
        numStr == IF i = 0 THEN <<>> ELSE TrimSpace(SubSeq(trimmed, 1, i - 1))
        unitStr == IF i = 0 THEN <<>>
                   ELSE ToUpper(TrimSpace(SubSeq(trimmed, i, Len(trimmed))))
        parsed == ParseFloat(numStr)
        units == UnitsLabelled(unitStr)
    IN  IF trimmed = <<>> THEN Failed(sSizeEmpty)
        ELSE IF unitStr = <<>> \/ numStr = <<>> THEN Failed(sInvalidFormat)
        ELSE IF ~parsed.err.nil
        THEN { [result |-> ToInt64(0), err |-> parsed.err] }
        ELSE IF units = <<>> THEN Failed(sInvalidUnit)
        ELSE { [result |-> r, err |-> NoError] :
                  r \in Int64OfFloat(FScale(parsed.num, units[1].Shift \div 10)) }

\* The pieces of the size strings: numbers, well-formed or not, and units,
\* known or not.
NumberTexts ==
    { <<>>, <<49>>, <<49, 48>>, <<50, 46, 53>>, <<48, 46, 49>>, <<45, 49>>, <<53>>, <<49, 48, 48>>,
      <<49, 48, 48, 48>>, <<49, 50, 46, 51, 52, 46, 53, 54>>, <<46, 53>>, <<49, 32, 48>>, <<43>>, <<56, 49, 57, 50>>,
      <<49, 48, 48, 48, 48>>, <<48, 46, 51, 49, 53>> }

UnitTexts ==
    { <<>>, sB, sKB, sMB, sGB, sTB, sPB, <<107, 66>>, <<112, 98>>, <<77>>,
      <<88, 89, 90>>, <<75, 32, 66>>, <<110, 111, 116, 32, 97, 32, 115, 105, 122, 101>> }

Blanks == { <<>>, <<32>> }

SizeTexts ==
    { l \o n \o m \o u \o r :
         l \in Blanks, n \in NumberTexts, m \in Blanks, u \in UnitTexts,
         r \in Blanks }

InitConvert ==
    /\ slice \in { Str(t) : t \in SizeTexts }
    /\ fn = "none"
    /\ args = <<>>
    /\ ret = <<>>
    /\ panicked = FALSE
    /\ pc = "idle"
    /\ calls = <<>>

\* result, err := ConvertStringSizeToBytes(sizeStr)
CallConvertStringSizeToBytes ==
    /\ fn' = "ConvertStringSizeToBytes"
    /\ args' = [sizeStr |-> slice.v]
    /\ ret' \in convertStringSizeToBytes(slice.v)
    /\ UNCHANGED <<slice, panicked, pc, calls>>

NextConvert == CallConvertStringSizeToBytes

\* The caller of ConvertStringSizeToBytes.
SpecConvert == InitConvert /\ [][NextConvert]_vars

(***************************************************************************)
(* Properties of ConvertStringSizeToBytes.                                 *)
(***************************************************************************)
ConvertCalled == fn = "ConvertStringSizeToBytes"

\* The labels of the units.
Labels == { SizeUnits[k].Label : k \in 1..Len(SizeUnits) }

\* t is a decimal number, spaces or none, and a unit in any letter case:
\* the ends of the number and of the spaces.
Shapes(t) ==
    { <<i, j>> \in (1..Len(t)) \X (1..Len(t)) :
         /\ i <= j /\ j < Len(t)
         /\ IsDecimal(SubSeq(t, 1, i))
         /\ \A k \in (i + 1)..j : t[k] = 32
         /\ ToUpper(SubSeq(t, j + 1, Len(t))) \in Labels }

\* number * size of the unit, cut to an integer, for a text t of shape sh.
ExactBytes(t, sh) ==
    LET num == SubSeq(t, 1, sh[1])
        label == ToUpper(SubSeq(t, sh[2] + 1, Len(t)))
        unit == CHOOSE u \in { SizeUnits[k] : k \in 1..Len(SizeUnits) } :
                    u.Label = label
        n == NatShift(DigitsValue(Unsigned(num), <<>>), unit.Shift \div 10)
    IN  Z(num[1] = 45, DivTen(n, Decimals(Unsigned(num)), FALSE).q)

\* C19 as stated: for an input that is, between optional white space, a
\* decimal number, optional spaces and a unit B, KB, MB, GB, TB or PB in any
\* letter case, the result is the number times the size of the unit, cut to
\* an integer, and the error is nil: "10 KB" gives 10240, "1 kB" 1024 and
\* "2.5 TB" 2748779069440.
C19_NumberTimesUnit ==
    ConvertCalled =>
        LET t == TrimSpace(args.sizeStr)
        IN  /\ \A sh \in Shapes(t) :
                  /\ ret.err.nil
                  /\ ret.result = ExactBytes(t, sh)
            /\ t = <<49, 48, 32, 75, 66>> => ret.result = ToInt64(10240)
            /\ t = <<49, 32, 107, 66>> => ret.result = ToInt64(1024)
            /\ t = <<50, 46, 53, 32, 84, 66>> => ret.result = Z(FALSE, <<0, 0, 0, 512, 2>>)

\* The text before the first letter of t and the text from it on, both
\* without the white space around them.
NumberPart(t) ==
    TrimSpace(SubSeq(t, 1, (CHOOSE i \in 1..Len(t) :
                               IsLetter(t[i])
                               /\ \A j \in 1..(i - 1) : ~IsLetter(t[j])) - 1))

UnitPart(t) ==
    TrimSpace(SubSeq(t, CHOOSE i \in 1..Len(t) :
                            IsLetter(t[i])
                            /\ \A j \in 1..(i - 1) : ~IsLetter(t[j]), Len(t)))

\* C20: every failure returns 0 and an error, and the failures are, in this
\* order: a blank input, "size cannot be empty"; an input without a letter
\* or without anything but white space before its first letter, "invalid
\* size format"; a numeric part that does not parse, the error of
\* strconv.ParseFloat; a unit that is none of B, KB, MB, GB, TB, PB,
\* "invalid size unit".
C20_FailuresInOrder ==
    ConvertCalled =>
        LET t == TrimSpace(args.sizeStr)
            blank == \A i \in 1..Len(args.sizeStr) : IsSpace(args.sizeStr[i])
            noNumber == \/ \A i \in 1..Len(t) : ~IsLetter(t[i])
                        \/ IsLetter(t[1])
        IN  /\ ~ret.err.nil => ret.result = ToInt64(0)
            /\ IF blank THEN ret.err = Errorf(sSizeEmpty)
               ELSE IF noNumber THEN ret.err = Errorf(sInvalidFormat)
               ELSE IF ~IsDecimal(NumberPart(t))
               THEN ret.err = Errorf(sParsing \o Quote(NumberPart(t))
                                         \o sInvalidSyntax)
               ELSE IF ToUpper(UnitPart(t)) \notin Labels
               THEN ret.err = Errorf(sInvalidUnit)
               ELSE ret.err.nil

\* "12.34.56 XYZ", wrong in its number and in its unit, gave the error of the
\* number.
C20_Witness ==
    /\ ConvertCalled
    /\ TrimSpace(args.sizeStr) = <<49, 50, 46, 51, 52, 46, 53, 54, 32, 88, 89, 90>>
    /\ ret.result = ToInt64(0)
    /\ ret.err = Errorf(sParsing \o Quote(<<49, 50, 46, 51, 52, 46, 53, 54>>) \o sInvalidSyntax)

(***************************************************************************)
(* utils.ToOperatorType.  No letter outside ASCII has a lower case that is *)
(* a letter of an alias, so the ASCII strings of the model lose nothing.   *)
(***************************************************************************)
\* strings.ToLower(s)
ToLower(s) == [k \in 1..Len(s) |-> FoldByte(s[k])]

\* The labels of the cases of the switch, case by case.
EqualToCase ==
    { <<101, 116>>, <<101, 113, 117, 97, 108, 32, 116, 111>>, <<101, 113, 117, 97, 108, 116, 111>>, <<101, 113, 117, 97, 108>>, <<61, 61>> }

GreaterThanCase ==
    { <<103, 116>>, <<103, 114, 101, 97, 116, 101, 114>>, <<103, 114, 101, 97, 116, 101, 114, 32, 116, 104, 97, 110>>, <<103, 114, 101, 97, 116, 101, 114, 116, 104, 97, 110>>, <<62>> }

GreaterThanEqualToCase ==
    { <<103, 116, 101>>, <<103, 114, 101, 97, 116, 101, 114, 32, 116, 104, 97, 110, 32, 111, 114, 32, 101, 113, 117, 97, 108, 32, 116, 111>>, <<103, 114, 101, 97, 116, 101, 114, 116, 104, 97, 110, 111, 114, 101, 113, 117, 97, 108, 116, 111>>,
      <<62, 61>> }

LessThanCase ==
    { <<108, 116>>, <<108, 101, 115, 115>>, <<108, 101, 115, 115, 32, 116, 104, 97, 110>>, <<108, 101, 115, 115, 116, 104, 97, 110>>, <<60>> }

LessThanEqualToCase ==
    { <<108, 116, 101>>, <<108, 101, 115, 115, 32, 116, 104, 97, 110, 32, 111, 114, 32, 101, 113, 117, 97, 108, 32, 116, 111>>, <<108, 101, 115, 115, 116, 104, 97, 110, 111, 114, 101, 113, 117, 97, 108, 116, 111>>, <<60, 61>> }

\* ToOperatorType comparing the string as it is written.
ToOperatorType_CaseSensitive(operatorType) ==
    IF operatorType \in EqualToCase THEN EqualTo
    ELSE IF operatorType \in GreaterThanCase THEN GreaterThan
    ELSE IF operatorType \in GreaterThanEqualToCase THEN GreaterThanEqualTo
    ELSE IF operatorType \in LessThanCase THEN LessThan
    ELSE IF operatorType \in LessThanEqualToCase THEN LessThanEqualTo
    ELSE ""

\* ToOperatorType(operatorType): the first case of the switch that holds the
\* lower-cased string, the empty OperatorType when none does.
ToOperatorType(operatorType) ==
    LET s == ToLower(operatorType)
    IN  IF s \in EqualToCase THEN EqualTo
        ELSE IF s \in GreaterThanCase THEN GreaterThan
        ELSE IF s \in GreaterThanEqualToCase THEN GreaterThanEqualTo
        ELSE IF s \in LessThanCase THEN LessThan
        ELSE IF s \in LessThanEqualToCase THEN LessThanEqualTo
        ELSE ""

\* A string in upper case and with its first letter in upper case.
Capitalized(s) ==
    [k \in 1..Len(s) |-> IF k = 1 THEN UpperByte(s[k]) ELSE s[k]]

\* The operator strings of the callers: every label of the switch as
\* written, in upper case and capitalized, and strings that are no label.
OperatorTexts ==
    LET labels == EqualToCase \cup GreaterThanCase
                      \cup GreaterThanEqualToCase \cup LessThanCase
                      \cup LessThanEqualToCase
    IN  labels \cup { ToUpper(s) : s \in labels }
               \cup { Capitalized(s) : s \in labels }
               \cup { <<>>, <<61>>, <<101, 113>>, <<101, 113, 117, 97, 108, 115>>, <<32, 103, 116>>, <<103, 116, 32>>,
                      <<103, 114, 101, 97, 116, 101, 114, 32, 116, 104, 101, 110>>, <<108, 101, 115, 115, 32, 116, 104, 97, 110, 32, 111, 114, 32, 101, 113, 117, 97, 108>>, <<61, 62>>,
                      <<61, 60>>, <<33, 61>>, <<110, 101>>, <<105, 110, 118, 97, 108, 105, 100>>, <<69, 113, 117, 97, 108, 32, 84, 111, 32>>,
                      <<103, 114, 101, 97, 116, 101, 114, 32, 32, 116, 104, 97, 110>>, <<108, 101, 115, 115, 101, 114>> }

InitOperator ==
    /\ slice \in { Str(t) : t \in OperatorTexts }
    /\ fn = "none"
    /\ args = <<>>
    /\ ret = <<>>
    /\ panicked = FALSE
    /\ pc = "idle"
    /\ calls = <<>>

\* result := ToOperatorType(operatorType)
CallToOperatorType ==
    /\ fn' = "ToOperatorType"
    /\ args' = [operatorType |-> slice.v]
    /\ ret' = [result |-> ToOperatorType(slice.v)]
    /\ UNCHANGED <<slice, panicked, pc, calls>>

NextOperator == CallToOperatorType

\* The caller of ToOperatorType.
SpecOperator == InitOperator /\ [][NextOperator]_vars

(***************************************************************************)
(* C21                                                                     *)
(***************************************************************************)
OperatorCalled == fn = "ToOperatorType"

\* The alias sets of the statement.
StatedAliases ==
    [EqualTo |-> { <<101, 116>>, <<101, 113, 117, 97, 108, 32, 116, 111>>, <<101, 113, 117, 97, 108, 116, 111>>, <<101, 113, 117, 97, 108>>, <<61, 61>> },
     GreaterThan |-> { <<103, 116>>, <<103, 114, 101, 97, 116, 101, 114, 32, 116, 104, 97, 110>>, <<103, 114, 101, 97, 116, 101, 114, 116, 104, 97, 110>>, <<62>> },
     GreaterThanEqualTo |->
         { <<103, 116, 101>>, <<103, 114, 101, 97, 116, 101, 114, 32, 116, 104, 97, 110, 32, 111, 114, 32, 101, 113, 117, 97, 108, 32, 116, 111>>, <<103, 114, 101, 97, 116, 101, 114, 116, 104, 97, 110, 111, 114, 101, 113, 117, 97, 108, 116, 111>>,
           <<62, 61>> },
     LessThan |-> { <<108, 116>>, <<108, 101, 115, 115, 32, 116, 104, 97, 110>>, <<108, 101, 115, 115, 116, 104, 97, 110>>, <<60>> },
     LessThanEqualTo |->
         { <<108, 116, 101>>, <<108, 101, 115, 115, 32, 116, 104, 97, 110, 32, 111, 114, 32, 101, 113, 117, 97, 108, 32, 116, 111>>, <<108, 101, 115, 115, 116, 104, 97, 110, 111, 114, 101, 113, 117, 97, 108, 116, 111>>,
           <<60, 61>> }]

\* The result is the operator of the alias set that holds the string in
\* lower case, the same for every letter case, and the empty OperatorType
\* when no set holds it; no string is in two sets.
MapsBy(aliases) ==
    LET s == ToLower(args.operatorType)
    IN  /\ s \in aliases.EqualTo => ret.result = EqualTo
        /\ s \in aliases.GreaterThan => ret.result = GreaterThan
        /\ s \in aliases.GreaterThanEqualTo => ret.result = GreaterThanEqualTo
        /\ s \in aliases.LessThan => ret.result = LessThan
        /\ s \in aliases.LessThanEqualTo => ret.result = LessThanEqualTo
        /\ s \notin UNION { aliases[o] : o \in DOMAIN aliases } =>
               ret.result = ""

\* C21 as stated: ToOperatorType maps, in any letter case, et, equal to,
\* equalto, equal, == to EqualTo; gt, greater than, greaterthan, > to
\* GreaterThan; gte, greater than or equal to, greaterthanorequalto, >= to
\* GreaterThanEqualTo; lt, less than, lessthan, < to LessThan; lte, less
\* than or equal to, lessthanorequalto, <= to LessThanEqualTo; and every
\* other string, the empty one included, to the empty OperatorType.
C21_StatedAliasesOnly == OperatorCalled => MapsBy(StatedAliases)

\* C21, amended: the same, with "greater" an alias of GreaterThan and "less"
\* an alias of LessThan as well.
C21_AliasesOfTheSwitch ==
    OperatorCalled =>
        MapsBy([StatedAliases EXCEPT
                   !.GreaterThan = @ \cup { <<103, 114, 101, 97, 116, 101, 114>> },
                   !.LessThan = @ \cup { <<108, 101, 115, 115>> }])

\* "Greater" gave GreaterThan.
C21_Witness ==
    /\ OperatorCalled
    /\ args.operatorType = <<71, 114, 101, 97, 116, 101, 114>>
    /\ ret.result = GreaterThan

(***************************************************************************)
(* utils.IsExtensionValid.  path/filepath is compiled for the platform the *)
(* program runs on: the separators of a path are those of that platform.   *)
(***************************************************************************)
\* The platforms the package is built for, by their separators.
Hosts == {"unix", "windows"}

\* os.IsPathSeparator(c) on the platform host.
IsPathSeparator(c, host) == c = 47 \/ (host = "windows" /\ c = 92)

\* filepath.Ext(path): from the end of the path back to the first
\* separator, the suffix at the first dot met.
Ext(path, host) ==
    LET dots == { i \in 1..Len(path) :
                      /\ path[i] = 46
                      /\ \A j \in i..Len(path) :
                             ~IsPathSeparator(path[j], host) }
    IN  IF dots = {} THEN <<>>
        ELSE SubSeq(path, CHOOSE i \in dots : \A j \in dots : j <= i,
                    Len(path))

\* types.FileTypes
FileTypes ==
    [Any |-> "Any", Video |-> "Video", Image |-> "Image",
     Archive |-> "Archive", Documents |-> "Documents"]

\* types.FileExtensions: every value of the inner maps is true.
FileExtensions ==
    [Any |-> { <<42, 46, 42>> },
     Video |-> { <<46, 109, 112, 52>>, <<46, 97, 118, 105>>, <<46, 109, 107, 118>>, <<46, 109, 111, 118>>, <<46, 119, 109, 118>>, <<46, 102, 108, 118>>,
                 <<46, 119, 101, 98, 109>>, <<46, 109, 52, 118>>, <<46, 109, 112, 103>>, <<46, 109, 112, 101, 103>>, <<46, 116, 115>> },
     Image |-> { <<46, 106, 112, 103>>, <<46, 106, 112, 101, 103>>, <<46, 112, 110, 103>>, <<46, 103, 105, 102>>, <<46, 98, 109, 112>>,
                 <<46, 116, 105, 102, 102>>, <<46, 119, 101, 98, 112>>, <<46, 115, 118, 103>>, <<46, 114, 97, 119>>, <<46, 104, 101, 105, 99>>,
                 <<46, 105, 99, 111>> },
     Archive |-> { <<46, 122, 105, 112>>, <<46, 114, 97, 114>>, <<46, 55, 122>>, <<46, 116, 97, 114>>, <<46, 103, 122>>, <<46, 98, 122, 50>>,
                   <<46, 120, 122>>, <<46, 105, 115, 111>>, <<46, 116, 103, 122>>, <<46, 116, 98, 122, 50>> },
     Documents |-> { <<46, 100, 111, 99, 120>>, <<46, 100, 111, 99>>, <<46, 112, 100, 102>>, <<46, 116, 120, 116>>, <<46, 114, 116, 102>>,
                     <<46, 111, 100, 116>>, <<46, 120, 108, 115, 120>>, <<46, 120, 108, 115>>, <<46, 112, 112, 116, 120>>, <<46, 112, 112, 116>>,
                     <<46, 99, 115, 118>>, <<46, 109, 100>>, <<46, 112, 97, 103, 101, 115>> }]

\* IsExtensionValid looking the extension up as it is written.
IsExtensionValid_CaseSensitive(fileType, path, host) ==
    LET ext == Ext(path, host)
    IN  IF fileType \notin DOMAIN FileExtensions THEN FALSE
        ELSE IF <<42, 46, 42>> \in FileExtensions[fileType] THEN TRUE
        ELSE ext \in FileExtensions[fileType]

\* IsExtensionValid(fileType, path) on the platform host.
IsExtensionValid(fileType, path, host) ==
    LET ext == ToLower(Ext(path, host))
    IN  IF fileType \notin DOMAIN FileExtensions THEN FALSE
        ELSE IF <<42, 46, 42>> \in FileExtensions[fileType] THEN TRUE
        ELSE ext \in FileExtensions[fileType]

\* The paths of the callers: a directory part, a name and an ending.
PathTexts ==
    { d \o n \o x :
        d \in { <<>>, <<100, 105, 114, 46, 109, 112, 52, 47>>, <<67, 58, 92, 109, 101, 100, 105, 97, 46, 122, 105, 112, 92>> },
        n \in { <<>>, <<118, 105, 100, 101, 111>>, <<97, 114, 99, 104, 105, 118, 101, 46, 116, 97, 114>> },
        x \in { <<>>, <<46, 109, 112, 52>>, <<46, 77, 80, 52>>, <<46, 74, 112, 103>>, <<46, 112, 110, 103>>, <<46, 122, 105, 112>>,
                <<46, 103, 122>>, <<46, 112, 100, 102>>, <<46, 68, 79, 67, 88>>, <<46, 116, 120, 116>>, <<46>>, <<46, 109, 112>>,
                <<46, 109, 112, 52, 120>>, <<42, 46, 42>>, <<46, 97, 110, 121>>, <<46, 109, 112, 52, 47>>, <<46, 112, 100, 102, 92>>,
                <<46, 102, 105, 108, 101>> } }

\* The file types of the callers: those of types.FileTypes and strings that
\* are no key of types.FileExtensions.
FileTypeTexts ==
    { FileTypes[k] : k \in DOMAIN FileTypes }
        \cup { "unknown_type", "", "video" }

InitExtension ==
    /\ slice \in { Str(t) : t \in PathTexts }
    /\ fn = "none"
    /\ args = <<>>
    /\ ret = <<>>
    /\ panicked = FALSE
    /\ pc = "idle"
    /\ calls = <<>>

\* result := IsExtensionValid(fileType, path), on one of the platforms.
CallIsExtensionValid(fileType, host) ==
    /\ fn' = "IsExtensionValid"
    /\ args' = [fileType |-> fileType, path |-> slice.v, host |-> host]
    /\ ret' = [result |-> IsExtensionValid(fileType, slice.v, host)]
    /\ UNCHANGED <<slice, panicked, pc, calls>>

NextExtension ==
    \E fileType \in FileTypeTexts, host \in Hosts :
        CallIsExtensionValid(fileType, host)

\* The caller of IsExtensionValid.
SpecExtension == InitExtension /\ [][NextExtension]_vars

(***************************************************************************)
(* C22                                                                     *)
(***************************************************************************)
ExtensionCalled == fn = "IsExtensionValid"

\* s ends with e.
HasSuffix(s, e) ==
    Len(s) >= Len(e) /\ SubSeq(s, Len(s) - Len(e) + 1, Len(s)) = e

\* The last element of the path holds no dot: the path has no extension.
NoExtension(path, host) ==
    \A i \in 1..Len(path) :
        path[i] = 46 =>
            \E j \in (i + 1)..Len(path) : IsPathSeparator(path[j], host)

\* C22: IsExtensionValid is true for every path when the file type is Any,
\* false for every path when the file type is no key of FileExtensions, and
\* for Video, Image, Archive and Documents true exactly when the path ends,
\* letter case aside, with one of the extensions of the type; a path
\* without an extension is not valid for these types.
C22_ValidByFinalExtension ==
    ExtensionCalled =>
        /\ args.fileType = FileTypes.Any => ret.result
        /\ args.fileType \notin DOMAIN FileExtensions => ~ret.result
        /\ args.fileType \in
               {FileTypes.Video, FileTypes.Image, FileTypes.Archive,
                FileTypes.Documents} =>
               /\ ret.result <=>
                      \E x \in FileExtensions[args.fileType] :
                          HasSuffix(ToLower(args.path), x)
               /\ NoExtension(args.path, args.host) => ~ret.result

\* "archive.tar.MP4" in a directory "dir.mp4" was valid for Video.
C22_Witness ==
    /\ ExtensionCalled
    /\ args.fileType = FileTypes.Video
    /\ args.path = <<100, 105, 114, 46, 109, 112, 52, 47, 97, 114, 99, 104, 105, 118, 101, 46, 116, 97, 114, 46, 77, 80, 52>>
    /\ ret.result

(***************************************************************************)
(* utils.validateApp, the struct validation behind ValidateStruct.         *)
(***************************************************************************)
sExpectsStruct == <<118, 97, 108, 105, 100, 97, 116, 101, 65, 112, 112, 32, 101, 120, 112, 101, 99, 116, 115, 32, 97, 32, 115, 116, 114, 117, 99, 116>>

sCannotBeEmpty == <<32, 99, 97, 110, 110, 111, 116, 32, 98, 101, 32, 101, 109, 112, 116, 121>>

sCannotBeEmptyStruct == <<32, 99, 97, 110, 110, 111, 116, 32, 98, 101, 32, 97, 110, 32, 101, 109, 112, 116, 121, 32, 115, 116, 114, 117, 99, 116>>

RECURSIVE IsZero(_)
\* reflect.Value.IsZero for the kinds of the fields of the inputs.
IsZero(v) ==
    CASE v.kind = "string" -> v.v = <<>>
      [] v.kind \in {"int", "uint"} -> v.v = 0
      [] v.kind = "float" -> ~v.nan /\ v.v = 0
      [] v.kind = "bool" -> ~v.v
      [] v.kind = "ptr" -> v.nil
      [] v.kind = "struct" ->
             \A k \in 1..Len(v.fields) : IsZero(v.fields[k].val)

\* validateStringField(fieldName, value)
validateStringField(fieldName, value) ==
    IF value = <<>> THEN Errorf(fieldName \o sCannotBeEmpty) ELSE NoError

\* validateStructField(fieldName, value)
validateStructField(fieldName, value) ==
    IF IsZero(value) THEN Errorf(fieldName \o sCannotBeEmptyStruct)
    ELSE NoError

RECURSIVE validateFields(_)
\* The loop of validateApp over the fields that are left.
validateFields(fields) ==
    IF fields = <<>> THEN NoError
    ELSE LET field == Head(fields)
             err == CASE field.val.kind = "string" ->
                             validateStringField(field.name, field.val.v)
                       [] field.val.kind = "struct" ->
                             validateStructField(field.name, field.val)
                       [] OTHER -> NoError
         IN  IF ~err.nil THEN err ELSE validateFields(Tail(fields))

\* validateApp without the step through the pointer.
validateApp_NoElem(app) ==
    IF app.kind # "struct" THEN Errorf(sExpectsStruct)
    ELSE validateFields(app.fields)

\* validateApp(app): v.Elem() of a nil pointer is the zero Value, whose
\* kind is Invalid.
validateApp(app) ==
    LET v == IF app.kind = "ptr"
             THEN (IF app.nil THEN Nil ELSE app.elem)
             ELSE app
    IN  IF v.kind # "struct" THEN Errorf(sExpectsStruct)
        ELSE validateFields(v.fields)

\* type NestedStruct struct { FieldB string }
NestedStruct(b) == Struct(<<Fld(<<70, 105, 101, 108, 100, 66>>, Str(b))>>)

\* types.Colors, types.Styles and types.Application
Colors(background, foreground) ==
    Struct(<<Fld(<<66, 97, 99, 107, 103, 114, 111, 117, 110, 100>>, UintV(background)),
             Fld(<<70, 111, 114, 101, 103, 114, 111, 117, 110, 100>>, UintV(foreground))>>)

Styles(color) == Struct(<<Fld(<<67, 111, 108, 111, 114>>, color)>>)

Application(name, description, style, usage, version) ==
    Struct(<<Fld(sName, Str(name)), Fld(<<68, 101, 115, 99, 114, 105, 112, 116, 105, 111, 110>>, Str(description)),
             Fld(<<83, 116, 121, 108, 101>>, style), Fld(<<85, 115, 97, 103, 101>>, Str(usage)),
             Fld(<<86, 101, 114, 115, 105, 111, 110>>, Str(version))>>)

\* The applications of the callers: every string empty or not, the colours
\* zero or pterm.BgRed on pterm.FgWhite.
Applications ==
    { Application(n, d, Styles(c), u, v) :
        n \in { <<>>, <<84, 101, 115, 116, 32, 65, 112, 112>> },
        d \in { <<>>, <<84, 101, 115, 116, 32, 68, 101, 115, 99, 114, 105, 112, 116, 105, 111, 110>> },
        c \in { Colors(0, 0), Colors(41, 37) },
        u \in { <<>>, <<84, 101, 115, 116, 32, 85, 115, 97, 103, 101>> },
        v \in { <<>>, <<49, 46, 48, 46, 48>> } }

\* The fields a struct to validate is made of: strings and structs, empty
\* or not, exported or not, embedded or not, and fields of other kinds with
\* their zero value.
FieldMenu ==
    { Fld(<<70, 105, 101, 108, 100, 65>>, Str(<<>>)), Fld(<<70, 105, 101, 108, 100, 65>>, Str(<<118, 97, 108, 117, 101>>)),
      Fld(<<70, 105, 101, 108, 100, 67>>, NestedStruct(<<>>)),
      Fld(<<70, 105, 101, 108, 100, 67>>, NestedStruct(<<110, 101, 115, 116, 101, 100, 86, 97, 108, 117, 101>>)),
      Fld(<<104, 105, 100, 100, 101, 110>>, Str(<<>>)),
      Embed(<<78, 101, 115, 116, 101, 100, 83, 116, 114, 117, 99, 116>>, NestedStruct(<<>>)),
      Fld(<<69, 109, 112, 116, 121>>, Struct(<<>>)),
      Fld(<<67, 111, 117, 110, 116>>, IntV(0)), Fld(<<70, 108, 97, 103>>, BoolV(FALSE)),
      Fld(<<78, 101, 120, 116>>, NilPtr(NestedStruct(<<>>))) }

\* The structs of at most MaxLen fields, each name once.
MenuStructs ==
    { Struct(fs) : fs \in
        { s \in SeqsUpTo(FieldMenu, MaxLen) :
            \A i, j \in 1..Len(s) : i # j => s[i].name # s[j].name } }

\* What the callers validate: structs, pointers to them, and what is no
\* struct: nil, a nil pointer, a string, an integer, a pointer to a string
\* and a pointer to a pointer to a struct.
Validated ==
    MenuStructs \cup { Ptr(s) : s \in MenuStructs }
        \cup Applications \cup { Ptr(a) : a \in Applications }
        \cup { Nil, NilPtr(Application(<<>>, <<>>, Styles(Colors(0, 0)), <<>>, <<>>)),
               Str(<<115, 116, 114, 105, 110, 103>>), IntV(7), Ptr(Str(<<>>)),
               Ptr(Ptr(NestedStruct(<<110, 101, 115, 116, 101, 100, 86, 97, 108, 117, 101>>))) }

InitValidate ==
    /\ slice \in Validated
    /\ fn = "none"
    /\ args = <<>>
    /\ ret = <<>>
    /\ panicked = FALSE
    /\ pc = "idle"
    /\ calls = <<>>

\* err := ValidateStruct(app)
CallValidateStruct ==
    /\ fn' = "ValidateStruct"
    /\ args' = [app |-> slice]
    /\ ret' = [err |-> validateApp(slice)]
    /\ UNCHANGED <<slice, panicked, pc, calls>>

NextValidate == CallValidateStruct

\* The caller of ValidateStruct.
SpecValidate == InitValidate /\ [][NextValidate]_vars

(***************************************************************************)
(* C23                                                                     *)
(***************************************************************************)
ValidateCalled == fn = "ValidateStruct"

\* The struct the argument is or points to, Nil when there is none.
StructOf(app) ==
    LET v == Indirect(app) IN IF v.kind = "struct" THEN v ELSE Nil

\* The field is an empty string or a struct with its zero value.
Fails(field) ==
    \/ field.val.kind = "string" /\ field.val.v = <<>>
    \/ field.val.kind = "struct" /\ IsZero(field.val)

\* C23: the validation looks through a pointer; a value that is no struct
\* and a nil pointer give "validateApp expects a struct"; otherwise the
\* error is that of the first field, in the order of the declaration, that
\* is an empty string ("<Field> cannot be empty") or a struct with its zero
\* value ("<Field> cannot be an empty struct"), and nil when there is no
\* such field; fields of other kinds are not rejected.
C23_FirstFailingField ==
    ValidateCalled =>
        LET v == StructOf(args.app)
        IN  IF v = Nil THEN ret.err = Errorf(sExpectsStruct)
            ELSE LET failing == { k \in 1..Len(v.fields) : Fails(v.fields[k]) }
                 IN  IF failing = {} THEN ret.err.nil
                     ELSE LET k == CHOOSE i \in failing :
                                       \A j \in failing : i <= j
                              f == v.fields[k]
                          IN  ret.err =
                                  Errorf(f.name \o
                                         (IF f.val.kind = "string"
                                          THEN sCannotBeEmpty
                                          ELSE sCannotBeEmptyStruct))

\* A pointer to a struct with Count 0, then an empty FieldC, then an empty
\* FieldA gave the error of FieldC.
C23_Witness ==
    /\ ValidateCalled
    /\ args.app = Ptr(Struct(<<Fld(<<67, 111, 117, 110, 116>>, IntV(0)),
                               Fld(<<70, 105, 101, 108, 100, 67>>, NestedStruct(<<>>)),
                               Fld(<<70, 105, 101, 108, 100, 65>>, Str(<<>>))>>))
    /\ ret.err = Errorf(<<70, 105, 101, 108, 100, 67, 32, 99, 97, 110, 110, 111, 116, 32, 98, 101, 32, 97, 110, 32, 101, 109, 112, 116, 121, 32, 115, 116, 114, 117, 99, 116>>)

(***************************************************************************)
(* utils.ApplicationBanner and cli.ApplicationBanner, step by step: calls  *)
(* is the log of the calls it has made, pc the step it is at.              *)
(***************************************************************************)
sSimulatedClear == <<115, 105, 109, 117, 108, 97, 116, 101, 100, 32, 99, 108, 101, 97, 114, 32, 115, 99, 114, 101, 101, 110, 32, 101, 114, 114, 111, 114>>

sUnsupportedPlatform == <<117, 110, 115, 117, 112, 112, 111, 114, 116, 101, 100, 32, 112, 108, 97, 116, 102, 111, 114, 109, 58, 32, 112, 108, 97, 110, 57>>

\* What the clearScreen of a caller returns: nil, the error of the test, an
\* error of ClearTerminalScreen.
ClearScreenResults ==
    { NoError, Errorf(sSimulatedClear), Errorf(sUnsupportedPlatform) }

\* The arguments of the callers: pointers to applications and a nil
\* pointer.
BannerApps ==
    { Ptr(a) : a \in Applications }
        \cup { NilPtr(Application(<<>>, <<>>, Styles(Colors(0, 0)), <<>>, <<>>)) }

InitBanner ==
    /\ slice \in BannerApps
    /\ fn = "none"
    /\ args = <<>>
    /\ ret = <<>>
    /\ panicked = FALSE
    /\ pc = "idle"
    /\ calls = <<>>

\* ApplicationBanner(app, clearScreen) is entered.
BannerEnter ==
    /\ pc = "idle"
    /\ fn' = "ApplicationBanner"
    /\ args' = [app |-> slice]
    /\ pc' = "clearScreen"
    /\ UNCHANGED <<slice, ret, panicked, calls>>

\* The step that goes on after a clearScreen that failed.
BannerClearScreen_ErrorDropped(err) ==
    /\ pc = "clearScreen"
    /\ calls' = Append(calls, [call |-> "clearScreen", err |-> err])
    /\ pc' = "validateApp"
    /\ UNCHANGED <<slice, fn, args, ret, panicked>>

\* if err := clearScreen(runtime.GOOS); err != nil { return err }
BannerClearScreen(err) ==
    /\ pc = "clearScreen"
    /\ calls' = Append(calls, [call |-> "clearScreen", err |-> err])
    /\ IF ~err.nil
       THEN ret' = [err |-> err] /\ pc' = "done"
       ELSE ret' = ret /\ pc' = "validateApp"
    /\ UNCHANGED <<slice, fn, args, panicked>>

\* if err := validateApp(app); err != nil { return err }
BannerValidate ==
    /\ pc = "validateApp"
    /\ LET err == validateApp(slice)
       IN  /\ calls' = Append(calls, [call |-> "validateApp", err |-> err])
           /\ IF ~err.nil
              THEN ret' = [err |-> err] /\ pc' = "done"
              ELSE ret' = ret /\ pc' = "Println"
    /\ UNCHANGED <<slice, fn, args, panicked>>

\* pterm.DefaultHeader. ... .Println(app.Name); return nil
BannerPrintln ==
    /\ pc = "Println"
    /\ calls' = Append(calls, [call |-> "Println", err |-> NoError])
    /\ ret' = [err |-> NoError]
    /\ pc' = "done"
    /\ UNCHANGED <<slice, fn, args, panicked>>

NextBanner ==
    \/ BannerEnter
    \/ \E err \in ClearScreenResults : BannerClearScreen(err)
    \/ BannerValidate
    \/ BannerPrintln

\* The caller of ApplicationBanner.
SpecBanner == InitBanner /\ [][NextBanner]_vars

(***************************************************************************)
(* C24                                                                     *)
(***************************************************************************)
BannerCalled == fn = "ApplicationBanner"

\* The calls made so far, by name.
Called == [k \in 1..Len(calls) |-> calls[k].call]

\* C24: ApplicationBanner calls clearScreen first; when that fails it
\* returns its error as it is, without validating and without printing;
\* otherwise it validates the application and, when that fails, returns the
\* error of the validation without printing; the banner is printed, and nil
\* returned, only when both steps succeeded.
C24_ClearValidatePrint ==
    BannerCalled =>
        /\ \E n \in 0..3 :
               Called = SubSeq(<<"clearScreen", "validateApp", "Println">>, 1, n)
        /\ Len(calls) >= 2 => calls[1].err.nil
        /\ Len(calls) >= 2 => calls[2].err = validateApp(args.app)
        /\ Len(calls) = 3 => calls[2].err.nil /\ pc = "done"
        /\ pc = "done" =>
               IF ~calls[1].err.nil
               THEN Len(calls) = 1 /\ ret.err = calls[1].err
               ELSE IF ~calls[2].err.nil
               THEN Len(calls) = 2 /\ ret.err = calls[2].err
               ELSE Len(calls) = 3 /\ ret.err.nil
        /\ pc # "done" => ret = <<>>

\* The screen was cleared for an application without a name, and the call
\* returned "Name cannot be empty" without printing.
C24_Witness ==
    /\ BannerCalled
    /\ pc = "done"
    /\ Indirect(args.app).fields[1].val.v = <<>>
    /\ Called = <<"clearScreen", "validateApp">>
    /\ calls[1].err.nil
    /\ ret.err = Errorf(<<78, 97, 109, 101, 32, 99, 97, 110, 110, 111, 116, 32, 98, 101, 32, 101, 109, 112, 116, 121>>)

(***************************************************************************)
(* utils.RemoveEmptyDir, step by step, on a path whose stat, ReadDir and   *)
(* Remove answer as slice tells.                                           *)
(***************************************************************************)
sDoesNotExist == <<100, 105, 114, 101, 99, 116, 111, 114, 121, 32, 100, 111, 101, 115, 32, 110, 111, 116, 32, 101, 120, 105, 115, 116, 58, 32>>

sIsNotADirectory == <<32, 105, 115, 32, 110, 111, 116, 32, 97, 32, 100, 105, 114, 101, 99, 116, 111, 114, 121>>

sDirectory == <<100, 105, 114, 101, 99, 116, 111, 114, 121, 32>>

sIsNotEmpty == <<32, 105, 115, 32, 110, 111, 116, 32, 101, 109, 112, 116, 121>>

sSimulatedStat == <<115, 105, 109, 117, 108, 97, 116, 101, 100, 32, 83, 116, 97, 116, 32, 101, 114, 114, 111, 114>>

sSimulatedReadDir == <<115, 105, 109, 117, 108, 97, 116, 101, 100, 32, 82, 101, 97, 100, 68, 105, 114, 32, 101, 114, 114, 111, 114>>

sSimulatedRemove == <<115, 105, 109, 117, 108, 97, 116, 101, 100, 32, 82, 101, 109, 111, 118, 101, 32, 101, 114, 114, 111, 114>>

sNoSuchFile == <<115, 116, 97, 116, 32, 110, 111, 110, 101, 120, 105, 115, 116, 101, 110, 116, 45, 100, 105, 114, 58, 32, 110, 111, 32, 115, 117, 99, 104, 32, 102, 105, 108, 101, 32, 111, 114, 32, 100, 105, 114, 101, 99, 116, 111, 114, 121>>

\* What osStatFunc answers for a path: an error os.IsNotExist knows, another
\* error, a file, a directory.
StatResults == {"ErrNotExist", "error", "file", "dir"}

\* A path and the answers of osStatFunc, ops.ReadDir (so many entries, with
\* an error or not) and ops.Remove for it.
Dir(path, stat, entries, readDirErr, removeErr) ==
    [kind |-> "dir", path |-> path, stat |-> stat, entries |-> entries,
     readDirErr |-> readDirErr, removeErr |-> removeErr]

Dirs ==
    { Dir(p, s, n, r, d) :
        p \in { <<101, 109, 112, 116, 121, 45, 100, 105, 114>>, <<110, 111, 110, 101, 120, 105, 115, 116, 101, 110, 116, 45, 100, 105, 114>> }, s \in StatResults,
        n \in 0..MaxLen, r \in BOOLEAN, d \in BOOLEAN }

InitRemove ==
    /\ slice \in Dirs
    /\ fn = "none"
    /\ args = <<>>
    /\ ret = <<>>
    /\ panicked = FALSE
    /\ pc = "idle"
    /\ calls = <<>>

\* return ok, err
Return(ok, err) == ret' = [ok |-> ok, err |-> err] /\ pc' = "done"

\* RemoveEmptyDir(path, ops) is entered.
RemoveEnter ==
    /\ pc = "idle"
    /\ fn' = "RemoveEmptyDir"
    /\ args' = [path |-> slice.path]
    /\ pc' = "Stat"
    /\ UNCHANGED <<slice, ret, panicked, calls>>

\* fileInfo, err := osStatFunc(path), and the tests of err and of
\* fileInfo.IsDir().
RemoveStat ==
    /\ pc = "Stat"
    /\ calls' = Append(calls, [call |-> "Stat", result |-> slice.stat])
    /\ CASE slice.stat = "ErrNotExist" ->
                Return(FALSE, Errorf(sDoesNotExist \o sNoSuchFile))
         [] slice.stat = "error" -> Return(FALSE, Errorf(sSimulatedStat))
         [] slice.stat = "file" ->
                Return(FALSE, Errorf(slice.path \o sIsNotADirectory))
         [] slice.stat = "dir" -> ret' = ret /\ pc' = "ReadDir"
    /\ UNCHANGED <<slice, fn, args, panicked>>

\* The step that goes on to Remove whatever the number of entries.
RemoveReadDir_NoTestOfLen ==
    /\ pc = "ReadDir"
    /\ calls' = Append(calls, [call |-> "ReadDir",
                               result |-> [entries |-> slice.entries,
                                           err |-> slice.readDirErr]])
    /\ IF slice.readDirErr THEN Return(FALSE, Errorf(sSimulatedReadDir))
       ELSE ret' = ret /\ pc' = "Remove"
    /\ UNCHANGED <<slice, fn, args, panicked>>

\* entries, err := ops.ReadDir(path), and the tests of err and of
\* len(entries).
RemoveReadDir ==
    /\ pc = "ReadDir"
    /\ calls' = Append(calls, [call |-> "ReadDir",
                               result |-> [entries |-> slice.entries,
                                           err |-> slice.readDirErr]])
    /\ IF slice.readDirErr THEN Return(FALSE, Errorf(sSimulatedReadDir))
       ELSE IF slice.entries > 0
       THEN Return(FALSE, Errorf(sDirectory \o slice.path \o sIsNotEmpty))
       ELSE ret' = ret /\ pc' = "Remove"
    /\ UNCHANGED <<slice, fn, args, panicked>>

\* err = ops.Remove(path), and the test of err.
RemoveRemove ==
    /\ pc = "Remove"
    /\ calls' = Append(calls, [call |-> "Remove", result |-> slice.removeErr])
    /\ IF slice.removeErr THEN Return(FALSE, Errorf(sSimulatedRemove))
       ELSE Return(TRUE, NoError)
    /\ UNCHANGED <<slice, fn, args, panicked>>

NextRemove ==
    \/ RemoveEnter
    \/ RemoveStat
    \/ RemoveReadDir
    \/ RemoveRemove

\* The caller of RemoveEmptyDir.
SpecRemove == InitRemove /\ [][NextRemove]_vars

(***************************************************************************)
(* C25                                                                     *)
(***************************************************************************)
RemoveCalled == fn = "RemoveEmptyDir"

\* The places of the log where ops.Remove was called.
Removes == { k \in 1..Len(calls) : calls[k].call = "Remove" }

\* C25: ops.Remove is called at most once, and only after the stat
\* succeeded and told a directory and ops.ReadDir returned no entry and no
\* error; the result is (true, nil) exactly when Remove was called and
\* returned nil, and (false, an error) in every other case: a failed stat,
\* a path that is no directory, a failed ReadDir, a directory with entries,
\* a failed Remove.
C25_RemoveOnlyWhenEmpty ==
    RemoveCalled =>
        /\ Cardinality(Removes) <= 1
        /\ \A k \in Removes :
               /\ k = 3
               /\ calls[1].call = "Stat" /\ calls[1].result = "dir"
               /\ calls[2].call = "ReadDir"
               /\ ~calls[2].result.err /\ calls[2].result.entries = 0
        /\ pc = "done" =>
               /\ ret.ok <=> (Removes # {} /\ ~calls[3].result)
               /\ ret.ok <=> ret.err.nil
               /\ (\/ slice.stat # "dir"
                   \/ slice.readDirErr
                   \/ slice.entries > 0
                   \/ slice.removeErr) => ~ret.ok /\ ~ret.err.nil
               /\ slice.stat = "dir" /\ slice.entries > 0 => Removes = {}
        /\ pc # "done" => ret = <<>>

\* An empty directory was removed: stat, ReadDir, Remove, then (true, nil).
C25_Witness ==
    /\ RemoveCalled
    /\ pc = "done"
    /\ [k \in 1..Len(calls) |-> calls[k].call] = <<"Stat", "ReadDir", "Remove">>
    /\ ret = [ok |-> TRUE, err |-> NoError]

(***************************************************************************)
(* utils.FormatPath and formatters.FormatPath.  filepath.FromSlash and     *)
(* filepath.ToSlash are those of the platform the program runs on.         *)
(***************************************************************************)
\* filepath.Separator on the platform host.
Separator(host) == IF host = "windows" THEN 92 ELSE 47

\* strings.ReplaceAll for single bytes.
ReplaceByte(s, old, new) ==
    [k \in 1..Len(s) |-> IF s[k] = old THEN new ELSE s[k]]

\* filepath.FromSlash(path): each '/' becomes the separator; the path itself
\* where the separator is '/'.
FromSlash(path, host) ==
    IF Separator(host) = 47 THEN path
    ELSE ReplaceByte(path, 47, Separator(host))

\* filepath.ToSlash(path): each separator becomes '/'; the path itself where
\* the separator is '/'.
ToSlash(path, host) ==
    IF Separator(host) = 47 THEN path
    ELSE ReplaceByte(path, Separator(host), 47)

\* FormatPath(path, goos) on the platform host.
FormatPath(path, goos, host) ==
    CASE goos = "windows" -> FromSlash(path, host)
      [] goos \in {"linux", "darwin"} -> ToSlash(path, host)
      [] OTHER -> path

\* The paths and the goos of the callers.
FormatPathTexts ==
    { <<67, 58, 92, 112, 97, 116, 104, 92, 116, 111, 92, 102, 105, 108, 101>>, <<92, 112, 97, 116, 104, 92, 116, 111, 92, 102, 105, 108, 101>>, <<47, 112, 97, 116, 104, 47, 116, 111, 47, 102, 105, 108, 101>>,
      <<67, 58, 47, 112, 97, 116, 104, 47, 116, 111, 47, 102, 105, 108, 101>>, <<67, 58, 92, 112, 97, 116, 104, 47, 116, 111, 92, 102, 105, 108, 101>>, <<102, 105, 108, 101>>, <<>>, <<47>>,
      <<92>>, <<97, 47, 47, 98, 92, 92, 99>>, <<100, 105, 114, 47>>, <<100, 105, 114, 92>> }

GoosTexts == {"windows", "linux", "darwin", "unknown", "", "Windows"}

InitPath ==
    /\ slice \in { Str(t) : t \in FormatPathTexts }
    /\ fn = "none"
    /\ args = <<>>
    /\ ret = <<>>
    /\ panicked = FALSE
    /\ pc = "idle"
    /\ calls = <<>>

\* result := FormatPath(path, goos), on one of the platforms.
CallFormatPath(goos, host) ==
    /\ fn' = "FormatPath"
    /\ args' = [path |-> slice.v, goos |-> goos, host |-> host]
    /\ ret' = [result |-> FormatPath(slice.v, goos, host)]
    /\ UNCHANGED <<slice, panicked, pc, calls>>

NextPath ==
    \E goos \in GoosTexts, host \in Hosts : CallFormatPath(goos, host)

\* The caller of FormatPath.
SpecPath == InitPath /\ [][NextPath]_vars

(***************************************************************************)
(* C26                                                                     *)
(***************************************************************************)
PathCalled == fn = "FormatPath"

\* C26 as stated: FormatPath(path, "windows") is the path with every forward
\* slash replaced by a backslash, FormatPath(path, "linux") and
\* FormatPath(path, "darwin") the path with every backslash replaced by a
\* forward slash, and for another goos the path itself, on whatever
\* platform the code runs.
C26_ByGoosOnly ==
    PathCalled =>
        ret.result =
            CASE args.goos = "windows" -> ReplaceByte(args.path, 47, 92)
              [] args.goos \in {"linux", "darwin"} ->
                     ReplaceByte(args.path, 92, 47)
              [] OTHER -> args.path

(***************************************************************************)
(* C27 - C30: the renderer and the sorter as wholes                        *)
(***************************************************************************)
\* C27 as stated: for a slice of structs that is not empty,
\* GenericRenderResultsTableInterface takes the headers from the first
\* element, appends one header row, then one data row for each element in
\* the order of the slice, then one footer row if and only if totalValues is
\* not empty, and then renders; the slice is left as it was.
C27_HeaderRowsFooterRender ==
    (/\ RenderCalled
     /\ IsStructSlice(args.slice)
     /\ Len(args.slice.elems) > 0) =>
        LET elems == args.slice.elems
            hf == getHeadersAndFields(elems[1])
        IN  /\ ~panicked
            /\ ret.header = <<createHeaderRow(hf.headers)>>
            /\ Len(ret.rows) = Len(elems)
            /\ \A i \in 1..Len(elems) :
                   ret.rows[i] = createDataRow(elems[i], hf.fields).row
            /\ Len(ret.footer) = IF args.totalValues = <<>> THEN 0 ELSE 1
            /\ ret.rendered
            /\ slice = args.slice

\* C28 as stated: sorting is idempotent for every column and direction:
\* after GenericSortInterface(slice, col, desc) has run, running it again
\* with the same col and desc leaves the order of the elements unchanged,
\* also with equal values in the sort field and with sortDescending true.
C28_SortingTwiceIsSortingOnce ==
    (SortCalled /\ ~panicked) =>
        sortInterface(slice, args.sortColumn, args.sortDescending).slice
            = slice

\* The number of places of the sequence s that hold e.
Count(s, e) == Cardinality({ k \in 1..Len(s) : s[k] = e })

\* C29: GenericSortInterface only permutes: after the call the slice has
\* the length it had and holds each element as many times as before; a
\* value that is no slice is left as it is.
C29_OnlyPermutes ==
    SortCalled =>
        IF IsSlice(args.slice)
        THEN /\ IsSlice(slice)
             /\ Len(slice.elems) = Len(args.slice.elems)
             /\ \A k \in 1..Len(slice.elems) :
                    Count(slice.elems, slice.elems[k])
                        = Count(args.slice.elems, slice.elems[k])
        ELSE slice = args.slice

\* A slice of three elements, two of them the same, came out of a sort in
\* another order.
C29_Witness ==
    /\ SortCalled
    /\ IsSlice(slice)
    /\ Len(slice.elems) = 3
    /\ \E k \in 1..3 : Count(slice.elems, slice.elems[k]) = 2
    /\ slice # args.slice

\* C30 as stated: getHeadersAndFields returns as many headers as fields,
\* header k being field k, and for every record and every list of fields
\* createDataRow returns one cell for each field, in the order of the
\* fields.
C30_HeadersAndCellsAligned ==
    /\ HeadersCalled => ret.headers = ret.fields
    /\ (RowCalled /\ Indirect(args.data).kind = "struct") =>
           /\ ~panicked
           /\ Len(ret.row) = Len(args.fields)

====
